---- MODULE Spec2Model ----
(***************************************************************************)
(* IntelliHeal: the host's fault-to-recovery loop.                         *)
(*                                                                         *)
(* Spec models HealingManager._run_heal, CommandSender, the two consumers  *)
(* of HALAdapter's inbound queue (hal_incoming_dispatcher and              *)
(* TelemetryCollector._run) and the HAL server's handling of               *)
(* cmd_reconfigure.  Fault events are inputs: they are what FaultDetector  *)
(* hands to on_fault (node_id, fault_type, evidence without load/temp_c).  *)
(*                                                                         *)
(* Time is the wall clock in milliseconds (int(time.time()*1000)), which   *)
(* is what the command ids are built from.  The clock is read only when    *)
(* _run_heal starts and when it ends, so `now` holds what the clock has    *)
(* reached at least, and each reading is that or a later millisecond.  The *)
(* reading at the end of an attempt is later than the one at its start     *)
(* (_sandbox_verify sleeps 50 ms or more), and so is every reading after a *)
(* wait_for that timed out (2 s).  How long a round trip takes and how     *)
(* soon a result comes is left open, so every real schedule is a           *)
(* behaviour of Spec.                                                      *)
(*                                                                         *)
(* HALAdapter._in_q is not stored.  The TCP stream, _reader_loop and the   *)
(* queue move the server's lines in order, without looking at them, to     *)
(* whichever consumer calls read_json next (hal_adapter.py:133-161,        *)
(* 186-205); the host sees a line only when read_json returns it.  So a    *)
(* line is modelled from the server's write to read_json's return in one   *)
(* step: the host sees the same sequences of lines, in the same order      *)
(* relative to its own steps, as with the queue in between.                *)
(*                                                                         *)
(* The isolate fallback is written to the same connection and the server   *)
(* answers it like any command.  Its cmd_id (fallback_...) is never a key  *)
(* of _pending, because send_command registers no future when              *)
(* expect_result is false, so feed_incoming does nothing with the answers; *)
(* the fallback issued last is recorded (lastFb) and its answers are left  *)
(* out of the queues.                                                      *)
(*                                                                         *)
(* The other specifications take one part each on its own: SpecAI the      *)
(* planner (register_success, recommend), SpecBoard the simulator's Board  *)
(* and Tile methods, SpecSrv the simulator's HALServer with PRController   *)
(* on one connection, SpecLoops the two tick loops run_sim starts,         *)
(* SpecCtor the boards Board() constructs, SpecCli the server's loop per   *)
(* client on lines of every kind, SpecDet the FaultDetector, SpecWatch the *)
(* detector fed by the simulator's broadcasts, SpecHal and SpecHalLive the *)
(* tasks of HALAdapter, SpecStop the shutdown of the host's background     *)
(* tasks, SpecRef the planner's cache as references to the callers' plan   *)
(* dicts, SpecIn the inbound path for JSON values of any type, SpecSpare   *)
(* the reuse of a spare, SpecEv the planner under detector events with     *)
(* their evidence, SpecTile successive injections on a tile.               *)
(* The simulator process is the one variable sim, which holds no   *)
(* simulator in Spec, SpecMain and SpecAI: there the server is the part    *)
(* that Spec itself describes (toSrv, srvExec).  The host's background     *)
(* services are the one variable svc, held only where they are the         *)
(* subject.                                                                *)
(***************************************************************************)
EXTENDS Integers, Sequences, FiniteSets, TLC

\* ------------------------------------------------------------- bounds
MaxHeals == 2
MaxNow == 1

\* ---------------------------------------------------------- constants
Nodes == {"tile_0", "tile_1"}
FaultTypes == {"missing_heartbeat"}
Attempts == 1..MaxHeals

\* AIPathManager.spare_pool
spare_pool == <<"spare_1", "spare_2", "spare_3">>

\* The object given to CommandSender(hal).  main.py wires HALAdapter; the
\* class takes any object with send_json, so the other value stands for a
\* hal whose send_json returns a true value after a completed write.
HalKinds == {"HALAdapter", "returns_true"}

NoId == <<>>
NoOrigin == <<>>
NoPlan == [action |-> "none", spare_id |-> "none", playbook |-> "none",
           confidence |-> 0, source |-> "none"]
NoCmd == [cmd_id |-> NoId, target_node |-> "none", action |-> "none",
          spare_id |-> "none", origin |-> NoOrigin]
NoMsg == [msg_type |-> "none", cmd_id |-> NoId, status |-> "none", origin |-> NoOrigin]
NoAck == [status |-> "none", msg_type |-> "none", exc |-> "none"]
NoFut == [st |-> "none", res |-> NoMsg]
NoCtx == [node_id |-> "none", fault_type |-> "none", load |-> 0, temp_c |-> 0]

VARIABLES
  now,        \* what the wall clock has reached at least, ms
  hal,        \* CommandSender.hal
  model,      \* AIPathManager.model
  cache,      \* AIPathManager.cache: fingerprint -> plan
  toSrv,      \* lines written by the host, not yet read by HALServer._handle_client
  srvExec,    \* HALServer._exec_reconfig tasks that are running (their commands)
  pending,    \* CommandSender._pending: cmd_id -> the attempt whose future it holds
  nAtt,       \* _run_heal tasks created so far
  heal,       \* per _run_heal task: its locals and where it is suspended
  lastFb      \* the isolate fallback issued last, and how its send_command ended

hostVars == <<now, hal, model, cache, toSrv, srvExec, pending,
              nAtt, heal, lastFb>>

VARIABLES
  planner,    \* the rest of AIPathManager, with the history of its calls
  sim,        \* the simulator process (run_sim): board, server, loops
  svc         \* the background services of the host: FaultDetector,
              \* TelemetryCollector, the tasks of HALAdapter and of main

\* The fields of planner
pool == planner.pool     \* AIPathManager.spare_pool
reg == planner.reg       \* history: fingerprint -> the context and plan
                         \* register_success was given last
aiOut == planner.out     \* history: the last recommend call, its context
                         \* and its answer

\* The fields of sim
board == sim.board       \* Board: tiles (id -> Tile) and spares (the spare list)
loops == sim.loops       \* history of tick_all and of the snapshot broadcasts
nInj == sim.nInj         \* inject_fault calls so far
swapRes == sim.swapRes   \* history: what the last perform_fast_swap returned
failure_rate == sim.failure_rate  \* PRController.failure_rate, in hundredths
reqs == sim.reqs         \* history: the cmd_reconfigure messages read from
                         \* the connection
tasks == sim.tasks       \* _exec_reconfig tasks that are running (positions
                         \* in reqs)
wire == sim.wire         \* the cmd_ack and cmd_result lines written to the
                         \* connection

simVars == <<planner, sim, svc>>

vars == <<hostVars, simVars>>

\* ------------------------------------------------------ AIPathManager
NoModel == [present |-> FALSE, mapping |-> [ft \in FaultTypes |-> "none"]]

\* _fingerprint: the tuple that is hashed (sha1 is taken to be injective on it).
\* load is held in hundredths and temp_c in tenths; a context built from a
\* detector event has neither key, so both default to 0.
Fingerprint(ctx) ==
  <<ctx.node_id, ctx.fault_type, (ctx.load * 10) \div 100, ctx.temp_c \div 10>>

\* The heuristic loop over spare_pool: the first spare that is not the failed node.
FirstSpareOf(sp, node_id) ==
  LET idx == {i \in 1..Len(sp) : sp[i] # node_id}
  IN IF idx = {} THEN "none"
     ELSE sp[CHOOSE i \in idx : \A j \in idx : i <= j]

FirstSpare(node_id) == FirstSpareOf(spare_pool, node_id)

FastSwapPlan(s, conf, src) ==
  [action |-> "fast_swap", spare_id |-> s, playbook |-> "playbook_for_" \o s,
   confidence |-> conf, source |-> src]

IsolatePlan ==
  [action |-> "isolate", spare_id |-> "none", playbook |-> "none",
   confidence |-> 10, source |-> "fallback"]

\* mapping.get(fault_type): "none" when the model has no entry for the type
MappingGet(m, ft) ==
  IF ft \in DOMAIN m.mapping THEN m.mapping[ft] ELSE "none"

\* a recommend that tries the spare pool before the model
RecommendPoolFirst(sp, c, m, ctx) ==
  LET fp == Fingerprint(ctx) IN
  IF fp \in DOMAIN c
    THEN [c[fp] EXCEPT !.confidence = 99, !.source = "cache"]
  ELSE IF FirstSpareOf(sp, ctx.node_id) # "none"
    THEN FastSwapPlan(FirstSpareOf(sp, ctx.node_id), 50, "heuristic")
  ELSE IF m.present /\ MappingGet(m, ctx.fault_type) # "none"
    THEN FastSwapPlan(MappingGet(m, ctx.fault_type), 85, "model")
  ELSE IsolatePlan

\* recommend(ctx) of a planner whose spare_pool is sp; confidences are held in
\* hundredths.
RecommendWith(sp, c, m, ctx) ==
  LET fp == Fingerprint(ctx) IN
  IF fp \in DOMAIN c
    THEN [c[fp] EXCEPT !.confidence = 99, !.source = "cache"]
  ELSE IF m.present /\ MappingGet(m, ctx.fault_type) # "none"
    THEN FastSwapPlan(MappingGet(m, ctx.fault_type), 85, "model")
  ELSE IF FirstSpareOf(sp, ctx.node_id) # "none"
    THEN FastSwapPlan(FirstSpareOf(sp, ctx.node_id), 50, "heuristic")
  ELSE IsolatePlan

\* recommend(ctx) with the spare_pool of the constructor
Recommend(c, m, ctx) == RecommendWith(spare_pool, c, m, ctx)

\* a register_success that leaves an entry the cache already has
RegisterKeepsFirst(c, ctx, plan) ==
  LET fp == Fingerprint(ctx) IN
  [k \in DOMAIN c \cup {fp} |-> IF k \in DOMAIN c THEN c[k] ELSE plan]

\* register_success(ctx, plan): cache[fp] = plan
RegisterSuccess(c, ctx, plan) ==
  LET fp == Fingerprint(ctx) IN
  [k \in DOMAIN c \cup {fp} |-> IF k = fp THEN plan ELSE c[k]]

\* ----------------------------------------------------- HealingManager
\* _sandbox_verify: both branches return True.
SandboxVerify(plan) ==
  IF plan.confidence > 80 THEN TRUE ELSE TRUE

\* a commit test that forgets the command's status
CommitsOnVerified(verified, ack) ==
  verified

\* the commit test of _run_heal: verified and ack.get("status") == "success"
Commits(verified, ack) ==
  verified /\ ack.status = "success"

\* f"cmd_{node}_{int(start_ts*1000)}" and f"fallback_{node}_{int(time.time()*1000)}"
CmdId(prefix, node, ms) == <<prefix, node, ms>>

\* the primary command built from the plan
PrimaryCmd(a, node, plan, ms) ==
  [cmd_id |-> CmdId("cmd", node, ms), target_node |-> node, action |-> plan.action,
   spare_id |-> plan.spare_id, origin |-> <<a, "cmd">>]

\* a fallback that isolates the first spare instead of the failed node
FallbackOnSpare(a, node, ms) ==
  [cmd_id |-> CmdId("fallback", node, ms), target_node |-> spare_pool[1],
   action |-> "isolate", spare_id |-> "none", origin |-> <<a, "fallback">>]

\* the fallback command
FallbackCmd(a, node, ms) ==
  [cmd_id |-> CmdId("fallback", node, ms), target_node |-> node, action |-> "isolate",
   spare_id |-> "none", origin |-> <<a, "fallback">>]

\* a failure path that announces nothing
TerminalOnCommitOnly(commit) ==
  IF commit THEN <<"healing_success">> ELSE <<>>

\* the events _run_heal announces once the sandbox has answered
TerminalEvents(commit) ==
  IF commit THEN <<"healing_success">> ELSE <<"healing_failed">>

\* ----------------------------------------------- HALAdapter.send_json
\* HALAdapter._writer as send_json finds it
Writers == {"None", "open"}

\* What send_json does with the line: it raises without a writer
\* (ConnectionError) and when write/drain fails (the error is re-raised),
\* else the line is written.
SendJsonOutcome(w, fails) ==
  IF w = "None" THEN "raised"
  ELSE IF fails THEN "raised"
  ELSE "written"

\* the outcomes send_json can have, over the writers and the write failures
SendJsonOutcomes ==
  {SendJsonOutcome(w, fails) : w \in Writers, fails \in BOOLEAN}

\* the clock readings that can follow reading t
Readings(t) == {r \in {t, t + 1} : r <= MaxNow}

\* What send_json returns after a completed write.  HALAdapter.send_json has
\* no return statement: it returns None.
SendJsonReturn(h) ==
  IF h = "HALAdapter" THEN FALSE ELSE TRUE

\* ------------------------------------------------------ CommandSender
\* send_command up to its first suspension: the exception it raises, "sent"
\* (expect_result false) or "wait" (a future was registered).
SendCommandPath(outcome, ok, expect_result) ==
  IF outcome # "written" THEN "SendError"
  ELSE IF ~ok THEN "RuntimeError"
  ELSE IF ~expect_result THEN "sent"
  ELSE "wait"

\* self._pending[cmd_id] = fut
PendingPut(p, cid, a) ==
  [k \in DOMAIN p \cup {cid} |-> IF k = cid THEN a ELSE p[k]]

\* a send_command without the finally clause: the slot stays
PendingKeep(p, cid) ==
  p

\* self._pending.pop(cmd_id, None)
PendingPop(p, cid) ==
  [k \in DOMAIN p \ {cid} |-> p[k]]

\* a feed_incoming without the fut.done() test
FeedTargetsAnyState(p, h, msg) ==
  IF msg.msg_type \in {"cmd_result", "cmd_ack"} /\ msg.cmd_id \in DOMAIN p
  THEN {p[msg.cmd_id]}
  ELSE {}

\* feed_incoming(msg): the attempts whose future msg completes (none or one).
FeedTargets(p, h, msg) ==
  IF msg.msg_type \in {"cmd_result", "cmd_ack"}
     /\ msg.cmd_id \in DOMAIN p
     /\ h[p[msg.cmd_id]].fut.st = "pending"
  THEN {p[msg.cmd_id]}
  ELSE {}

\* feed_incoming(msg): fut.set_result(msg) on the target
FeedIncoming(p, h, msg) ==
  [a \in DOMAIN h |->
     IF a \in FeedTargets(p, h, msg)
       THEN [h[a] EXCEPT !.fut = [st |-> "done", res |-> msg]]
       ELSE h[a]]

\* the dict bound to `ack` in _run_heal
AckOfMsg(m) == [status |-> m.status, msg_type |-> m.msg_type, exc |-> "none"]
AckOfError(e) == [status |-> "error", msg_type |-> "none", exc |-> e]

\* --------------------------------------------------------------- state
\* A _run_heal task: where it is suspended (pc), its locals (node, ctx, plan,
\* cmd, ack), the future send_command waits on (fut), what it announced (ev)
\* and how send_json ended for the command (sendRes).
\* History kept for the properties: late (a cmd_result with its cmd_id was fed
\* after it had timed out).
IdleHeal ==
  [pc |-> "idle", node |-> "none", ctx |-> NoCtx, plan |-> NoPlan, cmd |-> NoCmd,
   fut |-> NoFut, ack |-> NoAck, ev |-> <<>>,
   sendRes |-> "none", late |-> FALSE]

\* no fallback yet.  Otherwise: the attempt that issued it (of), the command
\* (cmd), how send_json ended for it (res), the exception send_command
\* raised and _run_heal swallowed (err), whether send_command registered a
\* future for it (waits).
NoFb == [of |-> 0, cmd |-> NoCmd, res |-> "none", err |-> "none", waits |-> FALSE]

\* nothing sent, nothing cached, no heal started
HostQuiet ==
  /\ now = 0
  /\ cache = <<>>
  /\ toSrv = <<>>
  /\ srvExec = {}
  /\ pending = <<>>
  /\ nAtt = 0
  /\ heal = [a \in Attempts |-> IdleHeal]
  /\ lastFb = NoFb

HostInit ==
  /\ HostQuiet
  /\ hal \in HalKinds
  /\ model = NoModel

\* AIPathManager() as main.py builds it, before any recommend call of interest
NoOut == [ctx |-> NoCtx, plan |-> NoPlan]

NewPlanner(sp) == [pool |-> sp, reg |-> <<>>, out |-> NoOut]

PlannerInit == planner = NewPlanner(spare_pool)

\* no simulator process is modelled next to the host
NoSim == <<>>

\* none of the background services is modelled
NoSvc == <<>>

SvcIdle == svc = NoSvc

SimIdle ==
  /\ PlannerInit
  /\ sim = NoSim
  /\ SvcIdle

Init ==
  /\ HostInit
  /\ SimIdle

\* the lines on the way to the server after send_json(cmd) ended with `out`
Written(q, cmd, out) ==
  IF out = "written" THEN Append(q, cmd) ELSE q

\* -------------------------------------------------------------- actions
\* on_fault -> handle_fault -> _run_heal, up to its first suspension: plan,
\* healing_started, the command, send_command up to the wait on the future
\* (or, when send_command raised, up to the sleep of _sandbox_verify).
\* t is the clock reading start_ts, out what send_json does.
HandleFault(n, ft, out, t) ==
  /\ nAtt < MaxHeals
  /\ now' = t
  /\ LET a == nAtt + 1
         ctx == [node_id |-> n, fault_type |-> ft, load |-> 0, temp_c |-> 0]
         plan == Recommend(cache, model, ctx)
         cmd == PrimaryCmd(a, n, plan, t)
         path == SendCommandPath(out, SendJsonReturn(hal), TRUE)
         started == [heal[a] EXCEPT
                       !.node = n, !.ctx = ctx, !.plan = plan, !.cmd = cmd,
                       !.ev = <<"healing_started">>, !.sendRes = out]
     IN /\ nAtt' = a
        /\ toSrv' = Written(toSrv, cmd, out)
        /\ IF path = "wait"
             THEN /\ pending' = PendingPut(pending, cmd.cmd_id, a)
                  /\ heal' = [heal EXCEPT ![a] =
                               [started EXCEPT !.pc = "wait",
                                               !.fut = [st |-> "pending", res |-> NoMsg]]]
             ELSE /\ pending' = pending
                  /\ heal' = [heal EXCEPT ![a] =
                               [started EXCEPT !.pc = "sandbox", !.ack = AckOfError(path)]]
  /\ UNCHANGED <<simVars, hal, model, cache, srvExec, lastFb>>

\* send_command resumes with the future's result; finally: _pending.pop(cmd_id)
HealResume(a) ==
  /\ heal[a].pc = "wait"
  /\ heal[a].fut.st = "done"
  /\ pending' = PendingPop(pending, heal[a].cmd.cmd_id)
  /\ heal' = [heal EXCEPT ![a] = [@ EXCEPT !.pc = "sandbox",
                                            !.ack = AckOfMsg(heal[a].fut.res)]]
  /\ UNCHANGED <<simVars, now, hal, model, cache, toSrv, srvExec, nAtt, lastFb>>

\* the clock after a wait that began at ms has lasted its timeout
AfterTimeout(t, ms) == IF t > ms THEN t ELSE ms + 1

\* wait_for times out: the future is cancelled, finally: _pending.pop(cmd_id)
HealTimeout(a) ==
  /\ heal[a].pc = "wait"
  /\ heal[a].fut.st = "pending"
  /\ AfterTimeout(now, heal[a].cmd.cmd_id[3]) <= MaxNow
  /\ now' = AfterTimeout(now, heal[a].cmd.cmd_id[3])
  /\ pending' = PendingPop(pending, heal[a].cmd.cmd_id)
  /\ heal' = [heal EXCEPT ![a] = [@ EXCEPT !.pc = "sandbox",
                                            !.fut = [st |-> "cancelled", res |-> NoMsg],
                                            !.ack = AckOfError("TimeoutError")]]
  /\ UNCHANGED <<simVars, hal, model, cache, toSrv, srvExec, nAtt, lastFb>>

\* _run_heal after the sleep of _sandbox_verify: commit, or healing_failed and
\* the isolate fallback (send_command with expect_result false, errors
\* swallowed).  t is the clock reading, out what send_json does with the
\* fallback.
HealSandboxDone(a, out, t) ==
  /\ heal[a].pc = "sandbox"
  /\ t > heal[a].cmd.cmd_id[3]
  /\ now' = t
  /\ LET h == heal[a]
         commit == Commits(SandboxVerify(h.plan), h.ack)
         fb == FallbackCmd(a, h.node, t)
         path == SendCommandPath(out, SendJsonReturn(hal), FALSE)
     IN /\ heal' = [heal EXCEPT ![a] =
                      [@ EXCEPT !.pc = "done", !.ev = h.ev \o TerminalEvents(commit)]]
        /\ IF commit
             THEN /\ out = "written"
                  /\ cache' = RegisterSuccess(cache, h.ctx, h.plan)
                  /\ lastFb' = lastFb
             ELSE /\ cache' = cache
                  /\ lastFb' = [of |-> a, cmd |-> fb, res |-> out,
                                err |-> IF path = "sent" THEN "none" ELSE path,
                                waits |-> path = "wait"]
  /\ UNCHANGED <<simVars, hal, model, toSrv, srvExec, pending, nAtt>>

\* read_json returns msg to the inbound dispatcher: feed_incoming(msg), then
\* telemetry_q.put(msg)
Dispatcher(h, msg) ==
  LET fed == FeedIncoming(pending, h, msg)
  IN heal' = [a \in DOMAIN fed |->
                IF /\ msg.msg_type = "cmd_result"
                   /\ h[a].cmd.cmd_id = msg.cmd_id
                   /\ h[a].ack.exc = "TimeoutError"
                  THEN [fed[a] EXCEPT !.late = TRUE]
                  ELSE fed[a]]

\* read_json returns msg to TelemetryCollector._run: queue.put(msg)
Collector(h, msg) ==
  heal' = h

\* the two tasks that call HALAdapter.read_json
Consumers == {"dispatcher", "collector"}

ReadJson(by, h, msg) ==
  IF by = "dispatcher" THEN Dispatcher(h, msg) ELSE Collector(h, msg)

\* HALServer._handle_client reads a cmd_reconfigure: cmd_ack is written, then
\* the _exec_reconfig task is created; the ack reaches consumer `by`
SrvHandleClient(by) ==
  /\ toSrv # <<>>
  /\ LET cmd == Head(toSrv)
     IN /\ srvExec' = srvExec \cup {cmd}
        /\ ReadJson(by, heal, [msg_type |-> "cmd_ack", cmd_id |-> cmd.cmd_id,
                               status |-> "accepted", origin |-> cmd.origin])
  /\ toSrv' = Tail(toSrv)
  /\ UNCHANGED <<simVars, now, hal, model, cache, pending, nAtt, lastFb>>

\* HALServer._exec_reconfig: PRController.handle_reconfigure has returned
\* (success, or failed by the random failure injection); cmd_result is
\* written and reaches consumer `by`
SrvExecDone(cmd, st, by) ==
  /\ cmd \in srvExec
  /\ srvExec' = srvExec \ {cmd}
  /\ ReadJson(by, heal,
              [msg_type |-> "cmd_result", cmd_id |-> cmd.cmd_id,
               status |-> st, origin |-> cmd.origin])
  /\ UNCHANGED <<simVars, now, hal, model, cache, toSrv, pending, nAtt, lastFb>>

Next ==
  \/ \E n \in Nodes, ft \in FaultTypes, out \in SendJsonOutcomes, t \in Readings(now) :
       HandleFault(n, ft, out, t)
  \/ \E a \in Attempts : HealResume(a)
  \/ \E a \in Attempts : HealTimeout(a)
  \/ \E a \in Attempts, out \in SendJsonOutcomes, t \in Readings(now) :
       HealSandboxDone(a, out, t)
  \/ \E by \in Consumers : SrvHandleClient(by)
  \/ \E cmd \in srvExec, st \in {"success", "failed"}, by \in Consumers :
       SrvExecDone(cmd, st, by)

Spec == Init /\ [][Next]_vars

\* ---------------------------------------------- the wiring of main.py
\* main.py gives CommandSender the HALAdapter.  SpecMain is that host with the
\* adapter connected (every send_json writes its line) and a server whose
\* PRController never fails: every cmd_reconfigure is answered by cmd_ack and
\* then by a cmd_result of status success.  send_command registers no future
\* with this adapter (send_json returns None, so it raises right after the
\* write), so no wait is resumed or timed out.
InitMain ==
  /\ Init
  /\ hal = "HALAdapter"

NextMain ==
  \/ \E n \in Nodes, ft \in FaultTypes, t \in Readings(now) :
       HandleFault(n, ft, "written", t)
  \/ \E a \in Attempts, t \in Readings(now) : HealSandboxDone(a, "written", t)
  \/ \E by \in Consumers : SrvHandleClient(by)
  \/ \E cmd \in srvExec, by \in Consumers : SrvExecDone(cmd, "success", by)

SpecMain == InitMain /\ [][NextMain]_vars

\* ------------------------------------------------------------ properties
Started(a) == heal[a].pc # "idle"
Done(a) == heal[a].pc = "done"
Succeeded(a) == heal[a].ev = <<"healing_started", "healing_success">>
Failed(a) == heal[a].ev = <<"healing_started", "healing_failed">>
TimedOut(a) == heal[a].ack.exc = "TimeoutError"
\* the command of attempt a is at the server, unread or being executed
InFlight(a) ==
  \/ \E i \in 1..Len(toSrv) : toSrv[i] = heal[a].cmd
  \/ heal[a].cmd \in srvExec
\* the cmd_results read in this step: the commands whose _exec_reconfig ends
ResultsRead == srvExec \ srvExec'

\* C1: a waiter is completed only by a cmd_result with its cmd_id, never by a
\* cmd_ack: every completed future holds a cmd_result, and no attempt gets a
\* cmd_ack back from send_command as the outcome of its command.
C1_OnlyResultCompletes ==
  \A a \in Attempts :
    /\ heal[a].fut.st = "done" =>
         /\ heal[a].fut.res.msg_type = "cmd_result"
         /\ heal[a].fut.res.cmd_id = heal[a].cmd.cmd_id
    /\ heal[a].ack.msg_type # "cmd_ack"

\* C2: with HALAdapter, send_command raises only when the write failed or
\* the deadline passed: a command whose line send_json wrote ends in no error
\* but the timeout, and a fallback (expect_result false) whose line was
\* written returns without an exception.
C2_ErrorOnlyOnWriteFailureOrDeadline ==
  hal = "HALAdapter" =>
    /\ \A a \in Attempts :
         heal[a].sendRes = "written" => heal[a].ack.exc \in {"none", "TimeoutError"}
    /\ lastFb.res = "written" => lastFb.err = "none"

\* C3: in the wiring of main.py, connected, with a server that answers every
\* command with success: an attempt that has ended and whose command has been
\* answered announced healing_success, and its (context, plan) is in the cache.
C3_AnsweredAttemptSucceeds ==
  \A a \in Attempts :
    (Done(a) /\ ~InFlight(a)) =>
      /\ Succeeded(a)
      /\ Fingerprint(heal[a].ctx) \in DOMAIN cache
      /\ cache[Fingerprint(heal[a].ctx)] = heal[a].plan

\* C4: whichever consumer reads it, a cmd_result that is read while a waiter
\* for its cmd_id is pending completes that waiter.
C4_ResultCompletesPendingWaiter ==
  [][\A c \in ResultsRead :
       (/\ c.cmd_id \in DOMAIN pending
        /\ heal[pending[c.cmd_id]].fut.st = "pending")
       => heal'[pending[c.cmd_id]].fut.st = "done"]_vars

\* C5: the cmd_ids of the commands issued are pairwise different: those of the
\* primary commands of any two attempts, and that of the last fallback from
\* all of them.
C5_CmdIdsDiffer ==
  /\ \A a, b \in Attempts :
       (a # b /\ Started(a) /\ Started(b)) => heal[a].cmd.cmd_id # heal[b].cmd.cmd_id
  /\ \A a \in Attempts :
       (Started(a) /\ lastFb.of # 0) => heal[a].cmd.cmd_id # lastFb.cmd.cmd_id

\* C6: when a wait times out, send_command raises the timeout error and the
\* future is cancelled; the slot of a timed-out command is not in _pending;
\* and reading a cmd_result whose cmd_id is that of a timed-out command
\* changes neither _pending nor any future.
C6_TimeoutRemovesSlot ==
  [][/\ \A a \in Attempts :
          (heal[a].pc = "wait" /\ heal[a].fut.st = "pending" /\ heal'[a].pc # "wait") =>
            /\ heal'[a].ack = AckOfError("TimeoutError")
            /\ heal'[a].fut.st = "cancelled"
     /\ \A a \in Attempts :
          heal'[a].ack.exc = "TimeoutError" => heal'[a].cmd.cmd_id \notin DOMAIN pending'
     /\ \A c \in ResultsRead :
          (\E a \in Attempts : TimedOut(a) /\ heal[a].cmd.cmd_id = c.cmd_id) =>
            /\ pending' = pending
            /\ \A b \in Attempts : heal'[b].fut = heal[b].fut /\ heal'[b].ack = heal[b].ack
    ]_vars

\* C6 witness: a cmd_result was fed for the cmd_id of a command that had timed
\* out; its slot is gone and its future stays cancelled.
C6_LateResultFed ==
  \E a \in Attempts :
    /\ heal[a].late
    /\ TimedOut(a)
    /\ heal[a].fut.st = "cancelled"
    /\ heal[a].cmd.cmd_id \notin DOMAIN pending

\* C7: a future is completed only by a message with the cmd_id of its own
\* command, and once completed it is never changed: not by a second message
\* with that cmd_id, nor by the messages of other commands, in whatever order
\* the results come.  The outcome send_command hands back is set once.
C7_OutcomeSetOnceByOwnId ==
  [][\A a \in Attempts :
       /\ (heal[a].fut.st = "pending" /\ heal'[a].fut.st = "done") =>
            heal'[a].fut.res.cmd_id = heal[a].cmd.cmd_id
       /\ heal[a].fut.st = "done" => heal'[a].fut = heal[a].fut
       /\ heal[a].ack # NoAck => heal'[a].ack = heal[a].ack
    ]_vars

\* C7 witness: two commands with different cmd_ids were pending together; the
\* server took the first one first, and the result of the second completed
\* its own future while the first is still being executed and waited for.
C7_SecondCompletedFirst ==
  \E a, b \in Attempts :
    /\ a < b
    /\ heal[a].cmd.cmd_id # heal[b].cmd.cmd_id
    /\ heal[a].pc = "wait" /\ heal[a].fut.st = "pending"
    /\ heal[a].cmd \in srvExec
    /\ pending[heal[a].cmd.cmd_id] = a
    /\ heal[b].fut.st = "done"
    /\ heal[b].fut.res.msg_type = "cmd_result"
    /\ heal[b].fut.res.cmd_id = heal[b].cmd.cmd_id

\* C8: an attempt announces healing_started first and, when it ends, exactly
\* one of healing_success and healing_failed after it; nothing else.
C8_StartedThenOneTerminal ==
  \A a \in Attempts :
    /\ heal[a].pc = "idle" => heal[a].ev = <<>>
    /\ heal[a].pc \in {"wait", "sandbox"} => heal[a].ev = <<"healing_started">>
    /\ Done(a) => (Succeeded(a) \/ Failed(a))

\* C8 witness: one attempt has ended with healing_success and another, whose
\* command timed out, with healing_failed.
C8_BothTerminalsSeen ==
  \E a, b \in Attempts :
    /\ Done(a) /\ Succeeded(a)
    /\ Done(b) /\ Failed(b) /\ TimedOut(b)

\* C9: healing_success is announced only by an attempt whose command outcome
\* has status success and whose sandbox verification passed, and the cache
\* holds exactly what such attempts registered: every entry is the plan of an
\* attempt that succeeded, under the fingerprint of its context.
C9_RegisterOnlyOnSuccess ==
  /\ \A a \in Attempts :
       ("healing_success" \in {heal[a].ev[i] : i \in 1..Len(heal[a].ev)}) =>
         /\ heal[a].ack.status = "success"
         /\ SandboxVerify(heal[a].plan)
         /\ Fingerprint(heal[a].ctx) \in DOMAIN cache
  /\ \A fp \in DOMAIN cache :
       \E a \in Attempts :
         /\ Succeeded(a)
         /\ heal[a].ack.status = "success"
         /\ Fingerprint(heal[a].ctx) = fp
         /\ cache[fp] = heal[a].plan

\* C9 witness: one attempt committed and its plan is in the cache; another
\* ended on a cmd_result of status failed and the cache has no entry for it.
C9_CommitAndNoCommit ==
  \E a, b \in Attempts :
    /\ Done(a) /\ Succeeded(a)
    /\ cache[Fingerprint(heal[a].ctx)] = heal[a].plan
    /\ Done(b) /\ heal[b].ack.status = "failed"
    /\ Fingerprint(heal[b].ctx) \notin DOMAIN cache

MaxReg == 2

AiNodes == {"tile_1", "spare_1"}
AiFaultTypes == {"missing_heartbeat", "overheat"}

\* metrics.load in hundredths (0.0, 0.05, 0.1) and metrics.temp_c in tenths
AiCtxs ==
  [node_id : AiNodes, fault_type : AiFaultTypes, load : {0, 5, 10}, temp_c : {0}]

\* model.json as train_model.py exports it, cut down to one entry; a mapping
\* value that is empty counts as no entry (`if spare:`)
AiModels ==
  {NoModel,
   [present |-> TRUE, mapping |-> [ft \in {"missing_heartbeat"} |-> "spare_1"]]}

AiPools == {spare_pool, <<"spare_1">>, <<>>}

\* plans handed to register_success
AiPlans == {FastSwapPlan("spare_3", 50, "heuristic"), IsolatePlan}

InitAI ==
  /\ HostQuiet
  /\ hal = "HALAdapter"
  /\ model \in AiModels
  /\ planner \in {NewPlanner(sp) : sp \in AiPools}
  /\ sim = NoSim
  /\ SvcIdle

\* register_success(ctx, plan)
AiRegister(ctx, plan) ==
  LET fp == Fingerprint(ctx) IN
  /\ fp \in DOMAIN reg \/ Cardinality(DOMAIN reg) < MaxReg
  /\ cache' = RegisterSuccess(cache, ctx, plan)
  /\ planner' = [planner EXCEPT !.reg =
                    [k \in DOMAIN reg \cup {fp} |->
                       IF k = fp THEN [ctx |-> ctx, plan |-> plan] ELSE reg[k]]]
  /\ UNCHANGED <<now, hal, model, toSrv, srvExec, pending, nAtt, heal, lastFb, sim, svc>>

\* recommend(ctx)
AiRecommend(ctx) ==
  /\ planner' = [planner EXCEPT !.out =
                    [ctx |-> ctx, plan |-> RecommendWith(pool, cache, model, ctx)]]
  /\ UNCHANGED <<hostVars, sim, svc>>

NextAI ==
  \/ \E ctx \in AiCtxs, plan \in AiPlans : AiRegister(ctx, plan)
  \/ \E ctx \in AiCtxs : AiRecommend(ctx)

SpecAI == InitAI /\ [][NextAI]_vars

\* what recommend answers for ctx in the current state
Answer(ctx) == RecommendWith(pool, cache, model, ctx)

\* C11: once register_success(c, p) has run, recommend(c') for every context
\* c' with the fingerprint of c answers from the cache: source "cache",
\* confidence 0.99, and the action and spare_id of the plan p registered last
\* for that fingerprint -- whatever the model and the spare pool are.
C11_RegisteredPlanIsReplayed ==
  /\ \A ctx \in AiCtxs :
       Fingerprint(ctx) \in DOMAIN reg =>
         LET p == reg[Fingerprint(ctx)].plan
             r == Answer(ctx)
         IN /\ r.source = "cache"
            /\ r.confidence = 99
            /\ r.action = p.action
            /\ r.spare_id = p.spare_id
  /\ aiOut.plan.source = "cache" => Fingerprint(aiOut.ctx) \in DOMAIN reg

\* a recommend call answered from the cache for a context other than the one
\* registered, with a model that has an entry for the fault type and a spare
\* pool that has a spare, both naming another spare than the cached plan
C11_CacheBeatsModelAndPool ==
  /\ aiOut.plan.source = "cache"
  /\ Fingerprint(aiOut.ctx) \in DOMAIN reg
  /\ reg[Fingerprint(aiOut.ctx)].ctx # aiOut.ctx
  /\ aiOut.plan.spare_id = "spare_3"
  /\ model.present
  /\ MappingGet(model, aiOut.ctx.fault_type) = "spare_1"
  /\ FirstSpareOf(pool, aiOut.ctx.node_id) = "spare_1"

\* the spares of the pool that are not the failed node, by position
OtherSpares(ctx) == {i \in 1..Len(pool) : pool[i] # ctx.node_id}

ModelNames(ctx) ==
  /\ model.present
  /\ ctx.fault_type \in DOMAIN model.mapping
  /\ model.mapping[ctx.fault_type] # "none"

\* C12: recommend answers by priority: a cache hit first; otherwise, when the
\* model has an entry for the fault type, fast_swap to the mapped spare with
\* confidence 0.85 and source "model"; otherwise fast_swap to the first spare
\* of the pool that is not the failed node, with confidence 0.5 and source
\* "heuristic"; and isolate with confidence 0.1 and source "fallback" only
\* when the pool has no such spare.
C12_RecommendPriority ==
  \A ctx \in AiCtxs :
    LET r == Answer(ctx) IN
    IF Fingerprint(ctx) \in DOMAIN cache
      THEN r.source = "cache"
    ELSE IF ModelNames(ctx)
      THEN /\ r.action = "fast_swap" /\ r.confidence = 85 /\ r.source = "model"
           /\ r.spare_id = model.mapping[ctx.fault_type]
    ELSE IF OtherSpares(ctx) # {}
      THEN /\ r.action = "fast_swap" /\ r.confidence = 50 /\ r.source = "heuristic"
           /\ \E i \in OtherSpares(ctx) :
                /\ pool[i] = r.spare_id
                /\ \A j \in OtherSpares(ctx) : i <= j
    ELSE /\ r.action = "isolate" /\ r.confidence = 10 /\ r.source = "fallback"

\* one planner state in which all four ranks answer: a cached fingerprint, a
\* fault type the model names, a node the pool has a spare for (the call made
\* last), and a node that is the pool's only spare
C12_AllFourRanksAnswer ==
  /\ aiOut.plan.source = "heuristic"
  /\ aiOut.ctx.fault_type = "overheat"
  /\ model.present
  /\ \E c1, c2, c3 \in AiCtxs :
       /\ Answer(c1).source = "cache"
       /\ Answer(c2).source = "model"
       /\ Answer(c3).source = "fallback"

\* ------------------------------------------------------------- Board
\* Board._init_tiles: the ids f"tile_{i}" for i in range(n).  An id is the
\* text "tile_" followed by the decimal digits of i.
DigitChar == <<"0", "1", "2", "3", "4", "5", "6", "7", "8", "9">>

RECURSIVE Dec(_)
Dec(i) == IF i < 10 THEN DigitChar[i + 1]
          ELSE Dec(i \div 10) \o DigitChar[(i % 10) + 1]

TileId(i) == "tile_" \o Dec(i)

\* the digits of i, most significant first
RECURSIVE DecDigits(_)
DecDigits(i) == IF i < 10 THEN <<i>> ELSE Append(DecDigits(i \div 10), i % 10)

\* the order of Python's str: the first differing character decides, and a
\* proper prefix is smaller
LexLess(a, b) ==
  \E p \in 1..Len(b) :
    /\ \A q \in 1..(p - 1) : q <= Len(a) /\ a[q] = b[q]
    /\ (p > Len(a) \/ (p <= Len(a) /\ a[p] < b[p]))

\* tile_i < tile_j as strings: the common prefix "tile_" decides nothing
IdLess(i, j) == LexLess(DecDigits(i), DecDigits(j))

\* sorted(self.tiles.keys()) of a board of n tiles
TileIds(n) ==
  [r \in 1..n |->
     TileId(CHOOSE i \in 0..(n - 1) :
              Cardinality({j \in 0..(n - 1) : IdLess(j, i)}) = r - 1)]

\* Board._init_spares: none for count <= 0, otherwise all_ids[-count:], which
\* is the whole list when count exceeds the number of tiles
InitSpares(n, count) ==
  IF count <= 0 THEN <<>>
  ELSE IF count >= n THEN TileIds(n)
  ELSE SubSeq(TileIds(n), n - count + 1, n)

SeqRange(q) == {q[i] : i \in 1..Len(q)}

\* the spare list of Board(tiles_count=4, spare_count=1)
OneSpareBoard == SeqRange(InitSpares(4, 1))

\* C13: a heuristic plan of the planner as it is constructed names a tile of
\* the connected board's spare list; for a board of 4 tiles whose only spare
\* is tile_3 and a missing_heartbeat on tile_1 (no cache entry, no model) the
\* plan is fast_swap with spare_id tile_3.
C13_HeuristicSpareIsBoardSpare ==
  ( /\ pool = spare_pool
    /\ aiOut.plan.source = "heuristic"
    /\ aiOut.ctx.node_id = "tile_1"
    /\ aiOut.ctx.fault_type = "missing_heartbeat" )
  => /\ aiOut.plan.action = "fast_swap"
     /\ aiOut.plan.spare_id \in OneSpareBoard

\* ====================================================================
\* The board of the simulator: Board and Tile methods called in any order.
\* ====================================================================
MaxInj == 1
MaxTicks == 3

\* --------------------------------------------------------------- Tile
\* A Tile: status, metrics load and error_count (both in hundredths),
\* pr_loaded ("none" for None), the type of _forced_fault ("none" for None)
\* and _fault_until: "none", or a deadline that is still "running" or has
\* "passed", and is_spare.  temp_c, voltage_v and last_output_crc are not
\* held.
NewTile ==
  [status |-> "ok", load |-> 0, ec |-> 0, pr_loaded |-> "none",
   fault |-> "none", until |-> "none", is_spare |-> FALSE]

Max0(x) == IF x > 0 THEN x ELSE 0

\* params.get("increase", default); has tells whether params holds the key
ParamGet(params, default) == IF params.has THEN params.increase ELSE default

\* Tile.apply_fault(fault_type, duration_s, params); timed stands for a
\* duration_s that is not None, inc for params
ApplyFault(t, fault_type, timed, inc) ==
  LET f == [t EXCEPT !.fault = fault_type,
                     !.until = IF timed THEN "running" ELSE "none"]
  IN CASE fault_type = "missing_heartbeat" ->
            [f EXCEPT !.status = "failed", !.ec = @ + ParamGet(inc, 300)]
       [] fault_type = "stuck_output" ->
            [f EXCEPT !.ec = @ + ParamGet(inc, 500), !.status = "degraded"]
       [] fault_type = "overheat" ->
            [f EXCEPT !.status = "degraded"]
       [] fault_type = "crc_mismatch" ->
            [f EXCEPT !.ec = @ + ParamGet(inc, 100), !.status = "degraded"]
       [] fault_type = "telemetry_noise" ->
            [f EXCEPT !.ec = @ + 50, !.status = "degraded"]
       [] OTHER ->
            [f EXCEPT !.ec = @ + 100, !.status = "degraded"]

\* Tile.clear_fault()
ClearFault(t) ==
  [t EXCEPT !.fault = "none", !.until = "none",
            !.status = IF @ # "spare" THEN "ok" ELSE @,
            !.ec = Max0(@ - 100)]

\* a tick that clears a fault that has no expiry as well
TickClearsUnbounded(t) ==
  LET c == IF t.fault # "none" /\ t.until # "running" THEN ClearFault(t) ELSE t
  IN IF c.fault = "none" /\ c.ec > 0 THEN [c EXCEPT !.ec = Max0(@ - 5)] ELSE c

\* Tile.tick(): fault expiry, then the decay of error_count
Tick(t) ==
  LET c == IF t.until = "passed" THEN ClearFault(t) ELSE t
  IN IF c.fault = "none" /\ c.ec > 0 THEN [c EXCEPT !.ec = Max0(@ - 5)] ELSE c

\* -------------------------------------------------------------- Board
\* Board(n, count) after light_load_scenario(board), as run_sim builds it
NewBoard(n, count) ==
  LET sp == InitSpares(n, count) IN
  [tiles |-> [id \in SeqRange(TileIds(n)) |->
                IF id \in SeqRange(sp)
                  THEN [NewTile EXCEPT !.pr_loaded = "spare_" \o id,
                                       !.is_spare = TRUE]
                  ELSE [NewTile EXCEPT !.load = 5]],
   spares |-> sp]

TileSet(b) == DOMAIN b.tiles

\* Board.tick_all()
TickAll(b) == [b EXCEPT !.tiles = [id \in DOMAIN @ |-> Tick(@[id])]]

\* a perform_fast_swap that does not look at the spare list
SwapUnchecked(b, target, spare) ==
  IF target \notin TileSet(b) \/ spare \notin TileSet(b)
    THEN [board |-> b, res |-> [status |-> "error", reason |-> "no_target"]]
  ELSE
    LET src == b.tiles[target]
        b1 == [b EXCEPT !.tiles[spare] =
                 [@ EXCEPT !.pr_loaded = IF src.pr_loaded # "none"
                                           THEN src.pr_loaded
                                           ELSE "module_" \o target,
                           !.status = "ok",
                           !.load = src.load,
                           !.ec = src.ec]]
        b2 == [b1 EXCEPT !.tiles[target] =
                 [@ EXCEPT !.status = "isolated", !.load = 0]]
    IN [board |-> b2, res |-> [status |-> "swapped", reason |-> "none"]]

\* a perform_fast_swap that takes the spare it used off the spare list
SwapConsumesSpare(b, target, spare) ==
  LET out == SwapUnchecked(b, target, spare)
      left == SelectSeq(b.spares, LAMBDA s : s # spare)
  IN IF spare \notin SeqRange(b.spares)
       THEN [board |-> b, res |-> [status |-> "error", reason |-> "not_a_spare"]]
     ELSE IF out.res.status = "swapped"
       THEN [board |-> [out.board EXCEPT !.spares = left], res |-> out.res]
     ELSE out

\* Board.perform_fast_swap(target_tile, spare_tile): the new board and the
\* dict returned.  dst is written first and src afterwards; when both name the
\* same tile the writes to src land on the tile dst was written to.
PerformFastSwap(b, target, spare) ==
  IF spare \notin SeqRange(b.spares)
    THEN [board |-> b, res |-> [status |-> "error", reason |-> "not_a_spare"]]
  ELSE IF target \notin TileSet(b)
    THEN [board |-> b, res |-> [status |-> "error", reason |-> "no_target"]]
  ELSE
    LET src == b.tiles[target]
        b1 == [b EXCEPT !.tiles[spare] =
                 [@ EXCEPT !.pr_loaded = IF src.pr_loaded # "none"
                                           THEN src.pr_loaded
                                           ELSE "module_" \o target,
                           !.status = "ok",
                           !.load = src.load,
                           !.ec = src.ec]]
        b2 == [b1 EXCEPT !.tiles[target] =
                 [@ EXCEPT !.status = "isolated", !.load = 0]]
    IN [board |-> b2, res |-> [status |-> "swapped", reason |-> "none"]]

\* ---------------------------------------------------- inputs and Init
\* Board(2, 1): tile_0 carries load, tile_1 is the spare
SimBoard == NewBoard(2, 1)

\* ids a caller may name: the tiles, and ids that are no tile of the board
TargetIds == TileSet(SimBoard) \cup {"tile_9"}
SpareIds == {"tile_0", "tile_1", "spare_1"}

\* fault_event messages as inject_from_message reads them: fault_type,
\* whether severity gives a duration (major: 60 s) or none (critical), and
\* evidence: without "increase", or with an "increase" of -5 (in hundredths)
InjFaults == {"missing_heartbeat", "telemetry_noise"}
InjEvidence == {[has |-> FALSE, increase |-> 0], [has |-> TRUE, increase |-> -500]}

NoLoops == [ticks |-> 0, since |-> 0, had |-> FALSE, gap |-> 0]

NoRes == [status |-> "none", reason |-> "none"]

\* run_sim before its loops have run and before a client has connected;
\* rate is the failure_rate of the PRController
NewSim(rate) ==
  [board |-> SimBoard, loops |-> NoLoops, nInj |-> 0, swapRes |-> NoRes,
   failure_rate |-> rate, reqs |-> <<>>, tasks |-> {}, wire |-> <<>>]

InitBoard ==
  /\ HostQuiet
  /\ hal = "HALAdapter"
  /\ model = NoModel
  /\ PlannerInit
  /\ SvcIdle
  /\ sim = NewSim(2)

\* Board.inject_fault(tile_id, fault_type, duration_s, params)
InjectFault(id, fault_type, timed, inc) ==
  /\ nInj < MaxInj
  /\ id \in TileSet(board)
  /\ sim' = [sim EXCEPT !.nInj = @ + 1,
                         !.board.tiles[id] = ApplyFault(@, fault_type, timed, inc)]
  /\ UNCHANGED <<hostVars, planner, svc>>

\* Board.clear_fault(tile_id)
BoardClearFault(id) ==
  /\ id \in TileSet(board)
  /\ sim' = [sim EXCEPT !.board.tiles[id] = ClearFault(@)]
  /\ UNCHANGED <<hostVars, planner, svc>>

\* Board.perform_fast_swap(target_tile, spare_tile)
FastSwap(target, spare) ==
  /\ sim' = [sim EXCEPT !.board = PerformFastSwap(board, target, spare).board,
                         !.swapRes = PerformFastSwap(board, target, spare).res]
  /\ UNCHANGED <<hostVars, planner, svc>>

\* time.time() passes the _fault_until of a tile
Elapse(id) ==
  /\ board.tiles[id].until = "running"
  /\ sim' = [sim EXCEPT !.board.tiles[id].until = "passed"]
  /\ UNCHANGED <<hostVars, planner, svc>>

\* Board.tick_all(), whichever loop calls it
BoardTick ==
  /\ loops.ticks < MaxTicks
  /\ sim' = [sim EXCEPT !.board = TickAll(board), !.loops.ticks = @ + 1]
  /\ UNCHANGED <<hostVars, planner, svc>>

NextBoard ==
  \/ \E id \in TargetIds, ft \in InjFaults, timed \in BOOLEAN, inc \in InjEvidence :
       InjectFault(id, ft, timed, inc)
  \/ \E id \in TargetIds : BoardClearFault(id)
  \/ \E target \in TargetIds, spare \in SpareIds : FastSwap(target, spare)
  \/ \E id \in TileSet(board) : Elapse(id)
  \/ BoardTick

SpecBoard == InitBoard /\ [][NextBoard]_vars

\* what perform_fast_swap(target, spare) would do to the board as it is now
Swapped(target, spare) == PerformFastSwap(board, target, spare)

\* C14: for every target that is a tile and every spare of the spare list, in
\* every reachable board state, perform_fast_swap(target, spare) leaves the
\* spare with status ok, the target with status isolated and load 0, and the
\* spare's pr_loaded equal to what the target had loaded, or to
\* "module_<target>" when the target had nothing loaded.
C14_SwapPostcondition ==
  \A target \in TileSet(board), spare \in SeqRange(board.spares) :
    LET after == Swapped(target, spare).board.tiles
        loaded == board.tiles[target].pr_loaded
    IN /\ after[spare].status = "ok"
       /\ after[target].status = "isolated"
       /\ after[target].load = 0
       /\ after[spare].pr_loaded =
            IF loaded # "none" THEN loaded ELSE "module_" \o target

TickOrInject ==
  \/ BoardTick
  \/ \E id \in TargetIds, ft \in InjFaults, timed \in BOOLEAN, inc \in InjEvidence :
       InjectFault(id, ft, timed, inc)

\* C19: a tile that a fast swap has isolated stays isolated through every
\* tick (the expiry of a timed fault on it included) and every fault
\* injection; only a requested clear takes it out of isolation.  (On this
\* board only perform_fast_swap sets a status to isolated.)
C19_IsolatedStaysIsolated ==
  [][TickOrInject =>
       \A id \in TileSet(board) :
         board.tiles[id].status = "isolated" => board'.tiles[id].status = "isolated"]_vars

\* C20: whatever ticks, faults (any type, any evidence), clears and fast swaps
\* have been applied, no tile has a negative error_count.
C20_ErrorCountNotNegative ==
  \A id \in TileSet(board) : board.tiles[id].ec >= 0

\* ====================================================================
\* HALServer and PRController: one connection that sends cmd_reconfigure
\* lines and stays open.  Each line is acknowledged by _handle_client, which
\* starts an _exec_reconfig task; the tasks finish in any order.
\* ====================================================================
MaxCmds == 2

\* a handle_reconfigure that leaves the board alone
HandleReconfigureDry(b, cmd) ==
  [board |-> b, res |-> [status |-> "noop", reason |-> "none"]]

\* PRController.handle_reconfigure(cmd) up to `failed = ...`: the new board
\* and, on the fast swap path, what perform_fast_swap returned (res is not
\* read afterwards).  A KeyError of clear_fault or of tiles[target] is
\* swallowed.
HandleReconfigure(b, cmd) ==
  IF cmd.action = "fast_swap" /\ cmd.spare_id # "none"
    THEN PerformFastSwap(b, cmd.target_node, cmd.spare_id)
  ELSE IF cmd.action = "partial_reconfig"
    THEN [board |-> IF cmd.target_node \in TileSet(b)
                      THEN [b EXCEPT !.tiles[cmd.target_node] = ClearFault(@)]
                      ELSE b,
          res |-> [status |-> "reconfigured", reason |-> "none"]]
  ELSE IF cmd.action = "isolate"
    THEN [board |-> IF cmd.target_node \in TileSet(b)
                      THEN [b EXCEPT !.tiles[cmd.target_node].status = "isolated"]
                      ELSE b,
          res |-> [status |-> "isolated", reason |-> "none"]]
  ELSE [board |-> b, res |-> [status |-> "noop", reason |-> "none"]]

\* random.random() in hundredths: a draw below and a draw above 0.02
Draws == {0, 50}

\* the status of the dict handle_reconfigure returns
ResultStatus(rate, draw) == IF draw < rate THEN "failed" ELSE "success"

\* the ack line _handle_client writes for the n-th request
AckLine(msg, n) ==
  [msg_type |-> "cmd_ack", cmd_id |-> msg.cmd_id, status |-> "accepted", req |-> n]

ResultLine(msg, n, status) ==
  [msg_type |-> "cmd_result", cmd_id |-> msg.cmd_id, status |-> status, req |-> n]

\* an _exec_reconfig that writes its except branch's line as well
ExecWritesTwice(msg, n, status) ==
  <<ResultLine(msg, n, status), ResultLine(msg, n, "failed")>>

\* the lines _exec_reconfig writes once handle_reconfigure has returned
ExecWrites(msg, n, status) ==
  <<ResultLine(msg, n, status)>>

\* cmd_reconfigure lines a client may send
SrvCmdIds == {"c1", "c2"}

SrvCmds ==
  [cmd_id : SrvCmdIds, action : {"fast_swap"}, target_node : {"tile_0", "tile_9"},
   spare_id : {"tile_1", "spare_1"}]
  \cup
  [cmd_id : SrvCmdIds, action : {"isolate", "partial_reconfig"},
   target_node : {"tile_0", "tile_9"}, spare_id : {"none"}]

InitSrv ==
  /\ HostQuiet
  /\ hal = "HALAdapter"
  /\ model = NoModel
  /\ PlannerInit
  /\ SvcIdle
  /\ sim \in {NewSim(rate) : rate \in {0, 2}}

\* _handle_client reads a cmd_reconfigure line: the ack is written, then the
\* _exec_reconfig task is created
HandleClient(msg) ==
  /\ Len(reqs) < MaxCmds
  /\ sim' = [sim EXCEPT !.reqs = Append(reqs, msg),
                         !.wire = Append(wire, AckLine(msg, Len(reqs) + 1)),
                         !.tasks = tasks \cup {Len(reqs) + 1}]
  /\ UNCHANGED <<hostVars, planner, svc>>

\* the _exec_reconfig task of the n-th request runs to its end
ExecReconfig(n, draw) ==
  LET msg == reqs[n]
      out == HandleReconfigure(board, msg)
  IN /\ n \in tasks
     /\ sim' = [sim EXCEPT
                  !.board = out.board,
                  !.swapRes = IF msg.action = "fast_swap" /\ msg.spare_id # "none"
                                THEN out.res ELSE swapRes,
                  !.wire = wire \o ExecWrites(msg, n, ResultStatus(failure_rate, draw)),
                  !.tasks = tasks \ {n}]
     /\ UNCHANGED <<hostVars, planner, svc>>

NextSrv ==
  \/ \E msg \in SrvCmds : HandleClient(msg)
  \/ \E n \in tasks, draw \in Draws : ExecReconfig(n, draw)

SpecSrv == InitSrv /\ [][NextSrv]_vars

\* a request the board cannot carry out: its target is no tile, or it is a
\* fast swap whose spare_id is not in the spare list
Rejected(msg) ==
  \/ msg.target_node \notin TileSet(board)
  \/ msg.action = "fast_swap" /\ msg.spare_id \notin SeqRange(board.spares)

\* C16: the cmd_result of a cmd_reconfigure that names an unknown target tile,
\* or of a fast_swap whose spare_id is not a spare, has status failed, with a
\* failure_rate of 0 as well.
C16_RejectedCommandFails ==
  \A i \in 1..Len(wire) :
    (wire[i].msg_type = "cmd_result" /\ Rejected(reqs[wire[i].req])) =>
      wire[i].status = "failed"

LinesOf(n, msg_type) ==
  {i \in 1..Len(wire) : wire[i].req = n /\ wire[i].msg_type = msg_type}

\* C17: for every cmd_reconfigure read from the connection the server writes
\* one cmd_ack and, when its task has finished, one cmd_result (none before),
\* both with the cmd_id of the request, the ack before the result; the order
\* of the results of different requests is free.
C17_OneAckThenOneResult ==
  /\ \A i \in 1..Len(wire) : wire[i].req \in 1..Len(reqs)
  /\ \A n \in 1..Len(reqs) :
       /\ Cardinality(LinesOf(n, "cmd_ack")) = 1
       /\ Cardinality(LinesOf(n, "cmd_result")) = IF n \in tasks THEN 0 ELSE 1
       /\ \A i \in LinesOf(n, "cmd_ack") \cup LinesOf(n, "cmd_result") :
            wire[i].cmd_id = reqs[n].cmd_id
       /\ \A i \in LinesOf(n, "cmd_ack"), j \in LinesOf(n, "cmd_result") : i < j

\* two requests with the same cmd_id, both answered, the second one first
C17_ResultsOutOfOrder ==
  /\ Len(reqs) = 2
  /\ tasks = {}
  /\ reqs[1].cmd_id = reqs[2].cmd_id
  /\ \E i \in LinesOf(2, "cmd_result"), j \in LinesOf(1, "cmd_result") : i < j

\* the n-th request's task ends in this step and writes status
ResultWritten(n, status) ==
  /\ n \in tasks
  /\ tasks' = tasks \ {n}
  /\ Len(wire') = Len(wire) + 1
  /\ wire'[Len(wire')].msg_type = "cmd_result"
  /\ wire'[Len(wire')].status = status

\* C34: when the cmd_result of a request is failed (the random failure
\* injection is the one source of that status), the board carries the
\* change of the request's action all the same: the target of an isolate
\* is isolated, and after a fast swap onto a spare of the spare list the
\* target is isolated and the spare has the target's module.
C34_FailedResultKeepsMutation ==
  [][\A n \in tasks :
       ResultWritten(n, "failed") =>
         LET msg == reqs[n]
             target == msg.target_node
         IN /\ (msg.action = "isolate" /\ target \in TileSet(board)) =>
                 board'.tiles[target].status = "isolated"
            /\ (/\ msg.action = "fast_swap"
                /\ target \in TileSet(board)
                /\ msg.spare_id \in SeqRange(board.spares)
                /\ msg.spare_id # target) =>
                 /\ board'.tiles[target].status = "isolated"
                 /\ board'.tiles[target].load = 0
                 /\ board'.tiles[msg.spare_id].pr_loaded =
                      IF board.tiles[target].pr_loaded # "none"
                        THEN board.tiles[target].pr_loaded
                        ELSE "module_" \o target]_vars

\* the one request was a fast swap onto the spare, its result is failed, and
\* the target is isolated with its module on the spare
C34_FailedSwapApplied ==
  /\ Len(reqs) = 1
  /\ tasks = {}
  /\ reqs[1].action = "fast_swap"
  /\ \E i \in LinesOf(1, "cmd_result") : wire[i].status = "failed"
  /\ board.tiles["tile_0"].status = "isolated"
  /\ board.tiles["tile_1"].pr_loaded = "module_tile_0"

\* ====================================================================
\* The two loops run_sim starts on one board: SimEnv._loop (tick_all every
\* tick_interval) and HALServer._hb_loop (tick_all, then the snapshot
\* broadcast, every hb_interval), next to fault events.  The two intervals
\* are command line arguments, so the passes interleave in any order.
\* ====================================================================
\* one pass of SimEnv._loop: tick_all()
EnvTick ==
  /\ loops.ticks < MaxTicks
  /\ sim' = [sim EXCEPT !.board = TickAll(board),
                         !.loops = [@ EXCEPT !.ticks = @ + 1, !.since = @ + 1]]
  /\ UNCHANGED <<hostVars, planner, svc>>

\* one pass of HALServer._hb_loop: tick_all(), then the snapshot is taken and
\* broadcast.  since counts the tick_all calls after the last broadcast; gap
\* is their number between the last two broadcasts (0 while there were not
\* two).
HbLoop ==
  /\ loops.ticks < MaxTicks
  /\ sim' = [sim EXCEPT
               !.board = TickAll(board),
               !.loops = [ticks |-> loops.ticks + 1, since |-> 0, had |-> TRUE,
                          gap |-> IF loops.had THEN loops.since + 1 ELSE 0]]
  /\ UNCHANGED <<hostVars, planner, svc>>

NextLoops ==
  \/ \E id \in TargetIds, ft \in InjFaults, timed \in BOOLEAN, inc \in InjEvidence :
       InjectFault(id, ft, timed, inc)
  \/ \E id \in TileSet(board) : Elapse(id)
  \/ EnvTick
  \/ HbLoop

SpecLoops == InitBoard /\ [][NextLoops]_vars

\* C18: every snapshot broadcast comes right after a tick_all() call, and
\* between two consecutive broadcasts tick_all() runs exactly once.
C18_OneTickPerBroadcast ==
  /\ loops.had => loops.ticks >= 1
  /\ loops.gap # 0 => loops.gap = 1

\* ====================================================================
\* Boards as Board(tiles_count, spare_count) constructs them, for every
\* number of tiles up to MaxTiles and every spare count, and what a swap and
\* the ticks leave of the spare list afterwards.
\* ====================================================================
MaxTiles == 11

\* run_sim on a board of n tiles and count spares
InitCtor ==
  /\ HostQuiet
  /\ hal = "HALAdapter"
  /\ model = NoModel
  /\ PlannerInit
  /\ SvcIdle
  /\ \E n \in 1..MaxTiles, count \in 0..MaxTiles :
       /\ count <= n
       /\ sim = [NewSim(0) EXCEPT !.board = NewBoard(n, count)]

\* the first perform_fast_swap on the board
FirstSwap(target, spare) ==
  /\ swapRes = NoRes
  /\ FastSwap(target, spare)

NextCtor ==
  \/ \E target \in TileSet(board), spare \in TileSet(board) : FirstSwap(target, spare)
  \/ BoardTick

SpecCtor == InitCtor /\ [][NextCtor]_vars

\* C21: on a board of n tiles and k spares (0 < k <= n, ten tiles and more
\* included) the spare list is tile_{n-k} .. tile_{n-1}, the k tiles with the
\* highest numbers; every id of the list is a tile with is_spare set, in the
\* constructed board and in every later state, and has pr_loaded
\* "spare_<id>" as constructed.
C21_SparesAreHighestTiles ==
  LET n == Cardinality(TileSet(board))
      k == Len(board.spares)
  IN /\ board.spares = [j \in 1..k |-> TileId(n - k + j - 1)]
     /\ \A s \in SeqRange(board.spares) :
          /\ s \in TileSet(board)
          /\ board.tiles[s].is_spare
          /\ (swapRes = NoRes => board.tiles[s].pr_loaded = "spare_" \o s)

\* ====================================================================
\* FaultDetector: _process_msg on the messages of the telemetry queue, one
\* call after the other (_run awaits each call), and the wall clock.  Time
\* is counted in whole steps; heartbeat_timeout_ms is a number of steps.
\* error_count is in hundredths, as on the board.
\* ====================================================================
MaxClock == 6

\* The fields of svc that belong to the detector
det == svc.det           \* the FaultDetector object, with the history of its
                         \* last _process_msg call
clock == svc.clock       \* time.time()

\* a dict without keys
NoNodes == <<>>

\* d[k] = v on a dict
DictSet(d, k, v) == [x \in DOMAIN d \cup {k} |-> IF x = k THEN v ELSE d[x]]

\* Messages as _process_msg reads them: msg_type, node_id ("none": no such
\* key), timestamp, metrics.error_count, and for a status_snapshot the dict
\* nodes; fault_type and severity are what a fault_event carries on.
\* status_code is the key of the message and m_status_code the key of its
\* metrics, both 0 where the key is absent (the .get default).  No message
\* of the simulator has a key "node".
NoTelemetry ==
  [msg_type |-> "none", node_id |-> "none", timestamp |-> 0, error_count |-> 0,
   status_code |-> 0, m_status_code |-> 0,
   fault_type |-> "none", severity |-> "none", nodes |-> NoNodes]

\* Tile.snapshot(): the body of one node
TileSnapshot(id, ts, ec) ==
  [NoTelemetry EXCEPT !.msg_type = "heartbeat", !.node_id = id,
                      !.timestamp = ts, !.error_count = ec]

\* Board.get_snapshot(): bodies is the dict of the node bodies
StatusSnapshot(ts, bodies) ==
  [NoTelemetry EXCEPT !.msg_type = "status_snapshot", !.timestamp = ts,
                      !.nodes = bodies]

\* FaultDetector(telemetry_q, on_fault, heartbeat_timeout_ms, error_threshold)
\* order is the key order of node_last_seen
NewDetector(timeout, threshold) ==
  [heartbeat_timeout_ms |-> timeout, error_threshold |-> threshold,
   node_last_seen |-> NoNodes, node_metrics |-> NoNodes, order |-> <<>>,
   last |-> NoTelemetry, out |-> <<>>]

FaultEvt(node, fault_type, severity) ==
  [node_id |-> node, fault_type |-> fault_type, severity |-> severity]

\* a sweep that leaves node_last_seen as it was
RECURSIVE SweepKeeps(_, _, _)
SweepKeeps(d, t, i) ==
  IF i > Len(d.order) THEN [det |-> d, report |-> <<>>]
  ELSE
    LET node == d.order[i]
        delta == t - d.node_last_seen[node]
        hit == delta > d.heartbeat_timeout_ms
        rest == SweepKeeps(d, t, i + 1)
        evt == FaultEvt(node, "missing_heartbeat",
                        IF delta > 5 * d.heartbeat_timeout_ms
                          THEN "critical" ELSE "major")
    IN [det |-> rest.det,
        report |-> IF hit THEN <<evt>> \o rest.report ELSE rest.report]

\* _check_heartbeat_gaps at time t, from the i-th known node on: the
\* detector afterwards and to_report
RECURSIVE CheckHeartbeatGaps(_, _, _)
CheckHeartbeatGaps(d, t, i) ==
  IF i > Len(d.order) THEN [det |-> d, report |-> <<>>]
  ELSE
    LET node == d.order[i]
        delta == t - d.node_last_seen[node]
        hit == delta > d.heartbeat_timeout_ms
        d1 == IF hit THEN [d EXCEPT !.node_last_seen[node] = t] ELSE d
        rest == CheckHeartbeatGaps(d1, t, i + 1)
        evt == FaultEvt(node, "missing_heartbeat",
                        IF delta > 5 * d.heartbeat_timeout_ms
                          THEN "critical" ELSE "major")
    IN [det |-> rest.det,
        report |-> IF hit THEN <<evt>> \o rest.report ELSE rest.report]

\* _process_msg(msg) at time t: the detector afterwards; out is what the
\* call handed to on_fault, in order
\* The quick checks of _process_msg (l.64-76): one if statement, one event.
\* QuickChecksApart is the variant with one if statement per check.
QuickChecksApart(threshold, node, msg) ==
  (IF msg.error_count >= threshold
     THEN <<FaultEvt(node, "error_count_exceeded", "major")>> ELSE <<>>)
  \o (IF (IF msg.status_code # 0 THEN msg.status_code
                                 ELSE msg.m_status_code) # 0
        THEN <<FaultEvt(node, "status_nonzero", "minor")>> ELSE <<>>)

QuickCheck(threshold, node, msg) ==
  LET error_count == msg.error_count
      status_code == IF msg.status_code # 0 THEN msg.status_code
                                            ELSE msg.m_status_code
  IN IF error_count >= threshold \/ status_code # 0
       THEN <<FaultEvt(node,
                       IF error_count >= threshold
                         THEN "error_count_exceeded" ELSE "status_nonzero",
                       IF error_count >= threshold THEN "major" ELSE "minor")>>
       ELSE <<>>

ProcessMsg(d, msg, t) ==
  LET d0 == [d EXCEPT !.last = msg, !.out = <<>>] IN
  IF msg.msg_type = "heartbeat" \/ msg.node_id # "none" THEN
    IF msg.node_id = "none" THEN d0
    ELSE
      LET node == msg.node_id
          d1 == [d0 EXCEPT
                   !.node_last_seen = DictSet(@, node, msg.timestamp),
                   !.node_metrics = DictSet(@, node, msg.error_count),
                   !.order = IF node \in DOMAIN d.node_last_seen
                               THEN @ ELSE Append(@, node)]
          quick == QuickCheck(d.error_threshold, node, msg)
          sw == CheckHeartbeatGaps(d1, t, 1)
      IN [sw.det EXCEPT !.out = quick \o sw.report]
  ELSE
    LET pass == IF msg.msg_type = "fault_event"
                  THEN <<FaultEvt(msg.node_id, msg.fault_type, msg.severity)>>
                  ELSE <<>>
        sw == CheckHeartbeatGaps(d0, t, 1)
    IN [sw.det EXCEPT !.out = pass \o sw.report]

\* ---------------------------------------------------- inputs and Init
DetNodes == {"tile_0", "tile_1"}

\* error_count of a body: none, or error_threshold=3 as main.py sets it
DetCounts == {0, 300}

\* how old the timestamp of a message is when the detector reads it
Lags == {0, 2}

\* status_code of a message and of its metrics, where one of them is set
DetCodes == {<<1, 0>>, <<0, 2>>}

\* what the queue can hold at time t: node bodies sent on their own (with and
\* without a node_id), status snapshots of the board, a fault_event without
\* node_id, and a cmd_result
Telemetry(t) ==
  LET stamps == {t - lag : lag \in Lags} \cap Nat IN
  {TileSnapshot(id, ts, ec) : id \in DetNodes \cup {"none"}, ts \in stamps,
                              ec \in DetCounts}
  \cup {[TileSnapshot(id, t, ec) EXCEPT !.status_code = c[1],
                                        !.m_status_code = c[2]] :
          id \in DetNodes, ec \in DetCounts, c \in DetCodes}
  \cup {StatusSnapshot(ts, [id \in DetNodes |-> TileSnapshot(id, ts, ec)]) :
          ts \in stamps, ec \in DetCounts}
  \cup {[NoTelemetry EXCEPT !.msg_type = "fault_event", !.timestamp = t,
                            !.fault_type = "overheat", !.severity = "major"],
        [NoTelemetry EXCEPT !.msg_type = "cmd_result"]}

InitDet ==
  /\ HostQuiet
  /\ hal = "HALAdapter"
  /\ model = NoModel
  /\ PlannerInit
  /\ sim = NoSim
  /\ svc = [det |-> NewDetector(1, 300), clock |-> 0]

\* _run: one message taken from the queue and processed
DetProcess(msg) ==
  /\ svc' = [svc EXCEPT !.det = ProcessMsg(det, msg, clock)]
  /\ UNCHANGED <<hostVars, planner, sim>>

\* time passes
DetElapse ==
  /\ clock < MaxClock
  /\ svc' = [svc EXCEPT !.clock = @ + 1]
  /\ UNCHANGED <<hostVars, planner, sim>>

NextDet ==
  \/ \E msg \in Telemetry(clock) : DetProcess(msg)
  \/ DetElapse

SpecDet == InitDet /\ [][NextDet]_vars

\* C22: after a status_snapshot has been processed, every node of its nodes
\* dict is known to the detector with the last_seen and the metrics of that
\* node's body (last_seen then being the body's timestamp, or the time of
\* the sweep that reported the node), and a body whose error_count reaches
\* error_threshold has produced an error_count_exceeded event.
C22_SnapshotUpdatesEveryNode ==
  det.last.msg_type = "status_snapshot" =>
    \A id \in DOMAIN det.last.nodes :
      LET body == det.last.nodes[id] IN
      /\ id \in DOMAIN det.node_last_seen
      /\ det.node_last_seen[id] \in {body.timestamp, clock}
      /\ det.node_metrics[id] = body.error_count
      /\ body.error_count >= det.error_threshold =>
           \E i \in 1..Len(det.out) :
             det.out[i] = FaultEvt(id, "error_count_exceeded", "major")

\* the events of a report that name the node
EventsFor(report, node) == {i \in 1..Len(report) : report[i].node_id = node}

ThresholdEvents(report) ==
  LET IsThreshold(e) ==
        e.fault_type \in {"error_count_exceeded", "status_nonzero"}
  IN SelectSeq(report, IsThreshold)

\* the status code _process_msg reads from the last message
LastStatusCode ==
  IF det.last.status_code # 0 THEN det.last.status_code
                              ELSE det.last.m_status_code

\* C31: for a message with a node_id the call emits at most one threshold
\* event: error_count_exceeded/major when metrics.error_count has reached
\* error_threshold, else status_nonzero/minor when the message or its
\* metrics carry a nonzero status_code, else none.
C31_OneThresholdEvent ==
  det.last.node_id # "none" =>
    ThresholdEvents(det.out) =
      IF det.last.error_count >= det.error_threshold
        THEN <<FaultEvt(det.last.node_id, "error_count_exceeded", "major")>>
      ELSE IF LastStatusCode # 0
        THEN <<FaultEvt(det.last.node_id, "status_nonzero", "minor")>>
      ELSE <<>>

\* a message over the threshold that also carries a status code got one
\* event
C31_BothChecksOneEvent ==
  /\ det.last.node_id # "none"
  /\ det.last.error_count >= det.error_threshold
  /\ LastStatusCode # 0
  /\ Len(ThresholdEvents(det.out)) = 1

\* ====================================================================
\* The simulator and the detector of a connected host: HALServer._hb_loop
\* broadcasts a snapshot of the board every hb_interval (one step of the
\* clock here, 0.1 s), the host hands each line it reads to the telemetry
\* queue, and FaultDetector._run processes the queue.  main.py builds the
\* detector with heartbeat_timeout_ms=200 (two steps) and error_threshold=3.
\* ====================================================================
MaxPeriods == 11

\* one second, in steps of hb_interval
Deadline == 10

\* The fields of svc next to det and clock
telemetry_q == svc.tq    \* telemetry_q of main.py
emitted == svc.emitted   \* history: the events on_fault was called with
injAt == svc.injAt       \* history: when the fault was injected (-1: not yet)

\* Board.get_snapshot() at time t
GetSnapshot(b, t) ==
  StatusSnapshot(t, [id \in TileSet(b) |-> TileSnapshot(id, t, b.tiles[id].ec)])

InitWatch ==
  /\ HostQuiet
  /\ hal = "HALAdapter"
  /\ model = NoModel
  /\ PlannerInit
  /\ sim = NewSim(0)
  /\ svc = [det |-> NewDetector(2, 300), clock |-> 0, tq |-> <<>>,
            emitted |-> {}, injAt |-> -1]

\* a fault_event with fault_type missing_heartbeat and severity critical
\* reaches _handle_client: inject_from_message gives it no duration
WatchInject(id) ==
  /\ injAt = -1
  /\ sim' = [sim EXCEPT !.board.tiles[id] =
                ApplyFault(@, "missing_heartbeat", FALSE,
                           [has |-> FALSE, increase |-> 0])]
  /\ svc' = [svc EXCEPT !.injAt = clock]
  /\ UNCHANGED <<hostVars, planner>>

\* one pass of _hb_loop: tick_all, the snapshot written to the client, and
\* the sleep of hb_interval; the host puts the line it reads on telemetry_q
WatchBroadcast ==
  /\ clock < MaxPeriods
  /\ Len(telemetry_q) < 2
  /\ sim' = [sim EXCEPT !.board = TickAll(board)]
  /\ svc' = [svc EXCEPT !.tq = Append(@, GetSnapshot(TickAll(board), clock)),
                         !.clock = @ + 1]
  /\ UNCHANGED <<hostVars, planner>>

\* FaultDetector._run: the next message of the queue is processed
WatchProcess ==
  /\ telemetry_q # <<>>
  /\ LET d == ProcessMsg(det, Head(telemetry_q), clock) IN
       svc' = [svc EXCEPT !.det = d, !.tq = Tail(@),
                           !.emitted = @ \cup SeqRange(d.out)]
  /\ UNCHANGED <<hostVars, planner, sim>>

NextWatch ==
  \/ \E id \in TileSet(board) : WatchInject(id)
  \/ WatchBroadcast
  \/ WatchProcess

SpecWatch == InitWatch /\ [][NextWatch]_vars

\* C24: with heartbeat_timeout_ms=200, once an unbounded missing_heartbeat
\* fault has been injected on a tile through a fault_event, and the
\* simulator has gone on broadcasting to the connected host for one second,
\* all of it processed, the detector has emitted a missing_heartbeat event
\* of severity critical for that tile.
C24_MissingHeartbeatDetected ==
  \A id \in TileSet(board) :
    ( /\ board.tiles[id].fault = "missing_heartbeat"
      /\ injAt >= 0
      /\ clock >= injAt + Deadline
      /\ telemetry_q = <<>> )
    => FaultEvt(id, "missing_heartbeat", "critical") \in emitted

\* ====================================================================
\* HALAdapter: the supervisor task (_connect_loop), the reader tasks it
\* creates (_reader_loop), stop(), a consumer of read_json(), and the peer:
\* the simulator, which accepts connections or refuses them, sends lines and
\* ends connections.  Every task is at one of its awaits; a step runs it to
\* its next await.  task.cancel() is noted in a field and takes effect in
\* the next step of that task.
\* ====================================================================
MaxConns == 2
MaxLines == 3

\* The fields of svc that belong to the adapter
running == svc.running       \* _running
ctask == svc.ctask           \* _connect_task: "none" (not created), the await
                             \* it is at, or "done"
cwait == svc.cwait           \* the reader task `await self._reader_task` waits for
ccancel == svc.ccancel       \* _connect_task.cancel() is pending
rtasks == svc.rtasks         \* every reader task created: "new" (not run yet),
                             \* "reading" (at readline), "done" or "cancelled"
rref == svc.rref             \* _reader_task: an index of rtasks, 0 for None
rcancel == svc.rcancel       \* the reader task with a pending cancel(), or 0
writer == svc.writer         \* _writer is not None
peer == svc.peer             \* the simulator listens ("up") or not ("down")
link == svc.link             \* the connection: "none", "open", or ended by the
                             \* peer ("eof") or by a failure ("error")
stream == svc.stream         \* lines the StreamReader holds, not yet read:
                             \* n > 0 is the JSON message n, 0 a line that is
                             \* blank or does not parse
in_q == svc.in_q             \* _in_q
sent == svc.sent             \* lines the peer has sent so far
attempts == svc.attempts     \* open_connection calls so far
stopPc == svc.stopPc         \* stop(): "idle" (not called), the await it is
                             \* at, or "done"
swait == svc.swait           \* the reader task stop() has cancelled and awaits
got == svc.got               \* history: the messages put on _in_q so far

\* HALAdapter(): asyncio.Queue() has maxsize 0
QueueMaxsize == 0

\* asyncio.Queue.full()
QueueFull(q) == QueueMaxsize > 0 /\ Len(q) >= QueueMaxsize

\* a task test that takes every task for finished
AnyTaskDone(st) == TRUE

\* Task.done()
TaskDone(st) == st \in {"done", "cancelled"}

NewAdapter ==
  [running |-> FALSE, ctask |-> "none", cwait |-> 0, ccancel |-> FALSE,
   rtasks |-> <<>>, rref |-> 0, rcancel |-> 0, writer |-> FALSE,
   peer |-> "up", link |-> "none", stream |-> <<>>, in_q |-> <<>>,
   sent |-> 0, attempts |-> 0, stopPc |-> "idle", swait |-> 0, got |-> {}]

InitHal ==
  /\ HostQuiet
  /\ hal = "HALAdapter"
  /\ model = NoModel
  /\ PlannerInit
  /\ sim = NoSim
  /\ \E p \in {"up", "down"} : svc = [NewAdapter EXCEPT !.peer = p]

Rest == UNCHANGED <<hostVars, planner, sim>>

\* the top of `while self._running:` in _connect_loop, from adapter state a
LoopTop(a) ==
  IF a.running THEN [a EXCEPT !.ctask = "connecting", !.attempts = @ + 1]
  ELSE [a EXCEPT !.ctask = "done"]

\* start(): _running is set and the supervisor task created; its first step
\* takes it to open_connection
HalStart ==
  /\ ctask = "none"
  /\ stopPc = "idle"
  /\ svc' = [svc EXCEPT !.running = TRUE, !.ctask = "created"]
  /\ Rest

ConnectBegin ==
  /\ ctask = "created"
  /\ ~ccancel
  /\ svc' = LoopTop(svc)
  /\ Rest

\* open_connection returns: _reader and _writer are set, a reader task is
\* created unless _reader_task is one that is not done, and the loop awaits
\* _reader_task
ConnectOk ==
  /\ ctask = "connecting"
  /\ ~ccancel
  /\ peer = "up"
  /\ LET spawn == rref = 0 \/ TaskDone(rtasks[rref])
         tasks1 == IF spawn THEN Append(rtasks, "new") ELSE rtasks
         ref1 == IF spawn THEN Len(tasks1) ELSE rref
     IN svc' = [svc EXCEPT !.writer = TRUE, !.link = "open", !.stream = <<>>,
                           !.rtasks = tasks1, !.rref = ref1,
                           !.cwait = ref1, !.ctask = "await_reader"]
  /\ Rest

\* open_connection raises: `except Exception`, the first sleep
ConnectFail ==
  /\ ctask = "connecting"
  /\ ~ccancel
  /\ peer = "down"
  /\ svc' = [svc EXCEPT !.ctask = "err_sleep"]
  /\ Rest

\* the sleep of the except clause is over: the finally clause closes the
\* writer (there is none) and waits for wait_closed()
ErrSleepOver ==
  /\ ctask = "err_sleep"
  /\ ~ccancel
  /\ svc' = [svc EXCEPT !.ctask = "cleanup"]
  /\ Rest

\* `await self._reader_task` returns, or raises CancelledError for a task
\* that was cancelled before it ran (`break`); either way the finally clause
\* runs
AwaitReaderOver ==
  /\ ctask = "await_reader"
  /\ ~ccancel
  /\ TaskDone(rtasks[cwait])
  /\ svc' = [svc EXCEPT !.ctask = "cleanup"]
  /\ Rest

\* a supervisor that gives up once a connection or an attempt is over
CleanupEnds(a) == [a EXCEPT !.ctask = "done"]

\* the end of the finally clause, from adapter state a: the second sleep
\* when still running, the loop test otherwise
AfterCleanup(a) ==
  IF a.running THEN [a EXCEPT !.ctask = "sleep"] ELSE LoopTop(a)

\* wait_closed() returns: the streams are dropped; the second sleep when
\* still running, the loop test otherwise
CleanupOver ==
  /\ ctask = "cleanup"
  /\ ~ccancel
  /\ svc' = AfterCleanup([svc EXCEPT !.writer = FALSE, !.link = "none",
                                       !.stream = <<>>])
  /\ Rest

\* the sleep of the finally clause is over: the loop test
SleepOver ==
  /\ ctask = "sleep"
  /\ ~ccancel
  /\ attempts < MaxConns
  /\ svc' = LoopTop(svc)
  /\ Rest

\* the supervisor task is resumed after cancel().  Waiting for a reader task
\* that is not done, it passes the cancellation on to that task and goes on
\* waiting.  In open_connection and in the first sleep CancelledError takes
\* it to the finally clause and, _running being false, out of the loop; in
\* the awaits of the finally clause and before its first step the task ends
\* there.
ConnectCancelled ==
  /\ ccancel
  /\ ctask \notin {"none", "done"}
  /\ svc' =
       IF ctask = "await_reader" /\ ~TaskDone(rtasks[cwait])
         THEN [svc EXCEPT !.ccancel = FALSE, !.rcancel = cwait]
       ELSE IF ctask \in {"connecting", "await_reader", "err_sleep"}
         THEN [svc EXCEPT !.ccancel = FALSE, !.ctask = "cleanup"]
       ELSE [svc EXCEPT !.ccancel = FALSE, !.ctask = "done"]
  /\ Rest

\* the first step of reader task i: it takes _reader and reaches readline,
\* or returns at once when _reader is None or _running is false
ReaderBegin(i) ==
  /\ rtasks[i] = "new"
  /\ rcancel # i
  /\ svc' = [svc EXCEPT !.rtasks[i] =
                IF link # "none" /\ running THEN "reading" ELSE "done"]
  /\ Rest

\* readline returns a line: a blank or unparseable one is skipped, a
\* message is put on _in_q (after the oldest was taken out, were the queue
\* full); then the loop test
ReaderLine(i) ==
  /\ rtasks[i] = "reading"
  /\ rcancel # i
  /\ stream # <<>>
  /\ LET n == Head(stream)
         q == IF QueueFull(in_q) THEN Tail(in_q) ELSE in_q
     IN svc' = [svc EXCEPT
                  !.stream = Tail(@),
                  !.in_q = IF n = 0 THEN @ ELSE Append(q, n),
                  !.got = IF n = 0 THEN @ ELSE @ \cup {n},
                  !.rtasks[i] = IF running THEN "reading" ELSE "done"]
  /\ Rest

\* readline returns b"" after the peer closed, or raises: the loop is left
ReaderEnd(i) ==
  /\ rtasks[i] = "reading"
  /\ rcancel # i
  /\ \/ link = "eof" /\ stream = <<>>
     \/ link = "error"
  /\ svc' = [svc EXCEPT !.rtasks[i] = "done"]
  /\ Rest

\* reader task i is resumed after cancel(): at readline CancelledError is
\* caught and the task returns; a task that has not run yet is cancelled
ReaderCancelled(i) ==
  /\ rcancel = i
  /\ svc' = [svc EXCEPT !.rcancel = 0,
                         !.rtasks[i] = IF @ = "new" THEN "cancelled"
                                       ELSE IF @ = "reading" THEN "done" ELSE @]
  /\ Rest

\* the peer writes a line (n = 0: one that is blank or does not parse)
PeerSend(bad) ==
  /\ link = "open"
  /\ sent < MaxLines
  /\ svc' = [svc EXCEPT !.sent = @ + 1,
                         !.stream = Append(@, IF bad THEN 0 ELSE sent + 1)]
  /\ Rest

\* the peer closes the connection, or the connection breaks
PeerEnds(how) ==
  /\ link = "open"
  /\ svc' = [svc EXCEPT !.link = how]
  /\ Rest

\* the simulator stops or starts listening
PeerTurns ==
  /\ svc' = [svc EXCEPT !.peer = IF @ = "up" THEN "down" ELSE "up"]
  /\ Rest

\* read_json() of a consumer returns the next message
HalReadJson ==
  /\ in_q # <<>>
  /\ svc' = [svc EXCEPT !.in_q = Tail(@)]
  /\ Rest

\* stop() after it has dealt with _reader_task, from adapter state a: the
\* supervisor task is cancelled and awaited
StopConnect(a) ==
  [a EXCEPT !.rref = 0, !.swait = 0, !.stopPc = "await_connect",
            !.ccancel = a.ctask # "done"]

\* stop() is called: _running is cleared, _reader_task cancelled and awaited
\* when there is one
StopBegin ==
  /\ stopPc = "idle"
  /\ ctask # "none"
  /\ LET a == [svc EXCEPT !.running = FALSE] IN
     svc' = IF rref = 0 THEN StopConnect(a)
            ELSE [a EXCEPT !.stopPc = "await_reader", !.swait = rref,
                           !.rcancel = IF TaskDone(rtasks[rref]) THEN @ ELSE rref]
  /\ Rest

\* gather(_reader_task) returns: _reader_task = None, then the supervisor
StopReaderOver ==
  /\ stopPc = "await_reader"
  /\ TaskDone(rtasks[swait])
  /\ svc' = StopConnect(svc)
  /\ Rest

\* gather(_connect_task) returns: the writer is closed, the streams are
\* dropped and the queue is emptied
StopConnectOver ==
  /\ stopPc = "await_connect"
  /\ ctask = "done"
  /\ svc' = [svc EXCEPT !.stopPc = "done", !.writer = FALSE, !.in_q = <<>>]
  /\ Rest

NextHal ==
  \/ HalStart
  \/ ConnectBegin
  \/ ConnectOk
  \/ ConnectFail
  \/ ErrSleepOver
  \/ AwaitReaderOver
  \/ CleanupOver
  \/ SleepOver
  \/ ConnectCancelled
  \/ \E i \in 1..Len(rtasks) : ReaderBegin(i)
  \/ \E i \in 1..Len(rtasks) : ReaderLine(i)
  \/ \E i \in 1..Len(rtasks) : ReaderEnd(i)
  \/ \E i \in 1..Len(rtasks) : ReaderCancelled(i)
  \/ \E bad \in BOOLEAN : PeerSend(bad)
  \/ \E how \in {"eof", "error"} : PeerEnds(how)
  \/ PeerTurns
  \/ HalReadJson
  \/ StopBegin
  \/ StopReaderOver
  \/ StopConnectOver

SpecHal == InitHal /\ [][NextHal]_vars

\* reader tasks that have been created and are not finished
ActiveReaders == {i \in 1..Len(rtasks) : rtasks[i] \in {"new", "reading"}}

\* C25: at every moment at most one reader task is active, whatever
\* connects, disconnects by the peer, reconnects and stop() have happened;
\* every reader task but the one created last has terminated, so that a
\* reader is created only after the one before it has ended.
C25_OneReaderAtATime ==
  /\ Cardinality(ActiveReaders) <= 1
  /\ \A i \in 1..(Len(rtasks) - 1) : rtasks[i] \in {"done", "cancelled"}

\* after a reconnect the second reader task is reading, and stop() has been
\* called and has cancelled it
C25_SecondReaderCancelled ==
  /\ Len(rtasks) = 2
  /\ rtasks[2] = "reading"
  /\ rcancel = 2
  /\ stopPc = "await_reader"

\* a capacity the inbound queue might have
Capacity == 2

\* C26: the inbound queue of the adapter never holds more messages than a
\* fixed capacity (here 2; any other number fails the same way once enough
\* lines arrive): at capacity the oldest message makes room for the new one.
C26_InboundQueueBounded ==
  Len(in_q) <= Capacity

\* ------------------------------------------------------------ progress
\* the steps of the supervisor task and of the reader tasks
ConnectLoop ==
  \/ ConnectBegin
  \/ ConnectOk
  \/ ConnectFail
  \/ ErrSleepOver
  \/ AwaitReaderOver
  \/ CleanupOver
  \/ SleepOver
  \/ ConnectCancelled

ReaderLoop ==
  \E i \in 1..Len(rtasks) :
    \/ ReaderBegin(i)
    \/ ReaderLine(i)
    \/ ReaderEnd(i)
    \/ ReaderCancelled(i)

\* The event loop resumes every task whose await is over: a task that can
\* take a step takes one.  The peer and the caller of stop() are free.
SpecHalLive ==
  /\ InitHal
  /\ [][NextHal]_vars
  /\ WF_vars(ConnectLoop)
  /\ WF_vars(ReaderLoop)

\* the connection has ended under the supervisor, or its attempt has failed
Lost ==
  \/ ctask = "await_reader" /\ link \in {"eof", "error"}
  \/ ctask \in {"err_sleep", "cleanup", "sleep"}

\* the state of the reader task the supervisor waits for
Awaited ==
  IF ctask = "await_reader" /\ cwait # 0 THEN rtasks[cwait] ELSE "none"

\* the line readline returns next (-1: none is waiting)
NextLine == IF stream # <<>> THEN Head(stream) ELSE -1

\* C30: whenever the connection of a running adapter has ended (end of file
\* or a read error) or a connection attempt has failed, the supervisor
\* comes to attempt a new connection, unless stop() is called (or the
\* attempts counted here are used up); once an attempt has succeeded the
\* reader task created for the connection comes to read it, unless stop()
\* is called; and every message that waits in a connection of a running
\* adapter is put on the queue, unless the connection fails or stop() is
\* called.
C30_SupervisorReconnects ==
  /\ (Lost /\ running /\ attempts < MaxConns)
       ~> (ctask = "connecting" \/ ~running)
  /\ (Awaited = "new" /\ running) ~> (Awaited = "reading" \/ ~running)
  /\ \A n \in 1..MaxLines :
       (NextLine = n /\ running) ~> (n \in got \/ link = "error" \/ ~running)

\* after a connection that was lost and an attempt that failed, a second
\* reader task has put a message on the queue
C30_DeliversAfterReconnect ==
  /\ running
  /\ Len(rtasks) = 2
  /\ rtasks[1] = "done"
  /\ rtasks[2] = "reading"
  /\ got # {}
  /\ in_q # <<>>
  /\ sent = 1

\* ====================================================================
\* HALServer._handle_client, one loop per connected client, on lines of
\* every kind but cmd_reconfigure (which the specification of the server's
\* commands covers): each step is one pass of a client's loop.
\* ====================================================================
Clients == {1, 2}

\* The fields of sim in this specification, next to board and nInj
conns == sim.conns       \* per client: the connection is "open" or "closed"
served == sim.served     \* history: the line handled last, its client, and
                         \* what inject_from_message returned ("none": not
                         \* called)
replies == sim.replies   \* per client: snapshots written to it so far (0 or 1)

\* A line as the loop reads it: text is "blank", "garbage" (json.loads
\* raises), "not_object" (JSON, but a list, a number, a string or null) or
\* "object"; the other fields are the keys of an object
Line(text, msg_type, node_id, fault_type, severity) ==
  [text |-> text, msg_type |-> msg_type, node_id |-> node_id,
   fault_type |-> fault_type, severity |-> severity]

NoLine == Line("none", "none", "none", "none", "none")

\* lines that are no supported message
Unsupported ==
  {Line("garbage", "none", "none", "none", "none"),
   Line("not_object", "none", "none", "none", "none"),
   Line("object", "telemetry", "none", "none", "none")}

\* fault_event objects: the node is a tile of the board, tile_9 (no tile),
\* or not given
FaultLines ==
  {Line("object", "fault_event", id, ft, sev) :
     id \in TargetIds \cup {"none"}, ft \in InjFaults,
     sev \in {"critical", "major"}}

Lines ==
  Unsupported \cup FaultLines
  \cup {Line("blank", "none", "none", "none", "none"),
        Line("object", "status_request", "none", "none", "none")}

\* an inject_from_message that lets the KeyError of inject_fault through
InjectUncaught(b, msg) ==
  IF msg.node_id \notin TileSet(b)
    THEN [board |-> b, ret |-> "raised"]
    ELSE [board |-> [b EXCEPT !.tiles[msg.node_id] =
                       ApplyFault(@, msg.fault_type, msg.severity # "critical",
                                  [has |-> FALSE, increase |-> 0])],
          ret |-> "injected"]

\* inject_from_message(board, msg): the board afterwards and the status of
\* the dict returned ("raised" were an exception to leave the function).
\* severity critical gives no duration; the evidence is empty.
InjectFromMessage(b, msg) ==
  IF msg.node_id \notin TileSet(b)
    THEN [board |-> b, ret |-> "error"]
    ELSE [board |-> [b EXCEPT !.tiles[msg.node_id] =
                       ApplyFault(@, msg.fault_type, msg.severity # "critical",
                                  [has |-> FALSE, increase |-> 0])],
          ret |-> "injected"]

NewServer ==
  [board |-> SimBoard, nInj |-> 0, conns |-> [c \in Clients |-> "open"],
   served |-> [client |-> 0, line |-> NoLine, ret |-> "none"],
   replies |-> [c \in Clients |-> 0]]

InitCli ==
  /\ HostQuiet
  /\ hal = "HALAdapter"
  /\ model = NoModel
  /\ PlannerInit
  /\ SvcIdle
  /\ sim = NewServer

\* the finally clause of _handle_client: the connection of client c is
\* closed and taken off the list, from server state s
CloseClient(s, c) == [s EXCEPT !.conns[c] = "closed"]

\* one pass of the loop of client c on a line it has read
ServeLine(c, line) ==
  /\ conns[c] = "open"
  /\ line.msg_type = "fault_event" /\ line.node_id \in TileSet(board)
       => nInj < MaxInj
  /\ LET s == [sim EXCEPT !.served = [client |-> c, line |-> line, ret |-> "none"]]
         inj == InjectFromMessage(board, line)
     IN sim' =
          IF line.text \in {"blank", "garbage"} THEN s
          ELSE IF line.text = "not_object" THEN CloseClient(s, c)
          ELSE IF line.msg_type = "fault_event" THEN
            IF inj.ret = "raised"
              THEN CloseClient([s EXCEPT !.served.ret = inj.ret], c)
              ELSE [s EXCEPT !.board = inj.board, !.served.ret = inj.ret,
                             !.nInj = IF inj.ret = "injected" THEN @ + 1 ELSE @]
          ELSE IF line.msg_type = "status_request"
            THEN [s EXCEPT !.replies[c] = 1]
          ELSE s
  /\ UNCHANGED <<hostVars, planner, svc>>

\* readline returns b"": client c has closed its connection
ClientCloses(c) ==
  /\ conns[c] = "open"
  /\ sim' = CloseClient(sim, c)
  /\ UNCHANGED <<hostVars, planner, svc>>

NextCli ==
  \/ \E c \in Clients, line \in Lines : ServeLine(c, line)
  \/ \E c \in Clients : ClientCloses(c)

SpecCli == InitCli /\ [][NextCli]_vars

\* C27: a line that is no supported message (text that does not parse, JSON
\* that is no object, an object of unknown msg_type) is dropped: the board
\* stays as it is, and the connection of its client stays open for the
\* lines that follow.
C27_UnsupportedLineKeepsConnection ==
  [][\A c \in Clients, line \in Unsupported :
       ServeLine(c, line) => /\ board' = board
                             /\ conns'[c] = "open"]_vars

\* a fault_event whose node_id is no tile of the board
NoTileLines == {line \in FaultLines : line.node_id \notin TileSet(SimBoard)}

\* C28: a fault_event that names no tile of the board gets a structured
\* error from inject_from_message, changes no tile, and closes no
\* connection: its client and every other client are served on.
C28_UnknownNodeIsAnError ==
  [][\A c \in Clients, line \in NoTileLines :
       ServeLine(c, line) => /\ served'.ret = "error"
                             /\ board' = board
                             /\ conns' = conns]_vars

\* on a board with a fault injected, a fault_event for tile_9 has been
\* answered with an error, with both clients connected
C28_ErrorOnFaultedBoard ==
  /\ served.line.msg_type = "fault_event"
  /\ served.line.node_id = "tile_9"
  /\ served.ret = "error"
  /\ nInj = 1
  /\ \A c \in Clients : conns[c] = "open"

\* ====================================================================
\* The background tasks of main.py after startup_event, and shutdown_event:
\* hal_incoming_dispatcher and TelemetryCollector._run both take messages
\* from the adapter's queue and put them on telemetry_q, FaultDetector._run
\* takes them from there.  A step runs a task from one suspension to the
\* next: a get() on a queue that holds messages does not suspend, so the
\* collector and the detector empty their queue in one step, while the
\* dispatcher (wait_for) takes one message per step.
\* ====================================================================
MaxInbound == 3

\* The fields of svc in this specification, next to in_q, telemetry_q and
\* sent
disp == svc.disp                 \* the dispatcher task: "waiting" or "done"
coll == svc.coll                 \* TelemetryCollector._task, likewise
collRunning == svc.collRunning   \* TelemetryCollector._running
detTask == svc.detTask           \* FaultDetector._task, likewise
detRunning == svc.detRunning     \* FaultDetector._running
shutPc == svc.shutPc             \* shutdown_event: "idle" (not requested), the
                                 \* await it is at, or "done"
halStopped == svc.halStopped     \* HALAdapter.stop() has returned

InitStop ==
  /\ HostQuiet
  /\ hal = "HALAdapter"
  /\ model = NoModel
  /\ PlannerInit
  /\ sim = NoSim
  /\ svc = [in_q |-> <<>>, tq |-> <<>>, sent |-> 0,
            disp |-> "waiting", coll |-> "waiting", collRunning |-> TRUE,
            detTask |-> "waiting", detRunning |-> TRUE,
            shutPc |-> "idle", halStopped |-> FALSE]

\* the adapter's reader puts a message of the simulator on _in_q
Inbound ==
  /\ ~halStopped
  /\ sent < MaxInbound
  /\ svc' = [svc EXCEPT !.sent = @ + 1, !.in_q = Append(@, sent + 1)]
  /\ Rest

\* hal_incoming_dispatcher: read_json(timeout=0.5) returns a message, which
\* goes to telemetry_q
DispatcherRead ==
  /\ disp = "waiting"
  /\ shutPc = "idle"
  /\ in_q # <<>>
  /\ svc' = [svc EXCEPT !.in_q = Tail(@), !.tq = Append(@, Head(in_q))]
  /\ Rest

\* the dispatcher is resumed after cancel(): CancelledError, return
DispatcherCancelled ==
  /\ disp = "waiting"
  /\ shutPc = "gather_tasks"
  /\ svc' = [svc EXCEPT !.disp = "done"]
  /\ Rest

\* TelemetryCollector._run resumed in read_json(): read_json has no timeout,
\* so the task is resumed by a message only; it forwards what the queue
\* holds and tests _running before it waits again
CollectorRun ==
  /\ coll = "waiting"
  /\ in_q # <<>>
  /\ svc' = [svc EXCEPT !.tq = @ \o in_q, !.in_q = <<>>,
                         !.coll = IF collRunning THEN "waiting" ELSE "done"]
  /\ Rest

\* FaultDetector._run resumed in telemetry_queue.get(): it processes what
\* the queue holds and tests _running before it waits again
DetectorRun ==
  /\ detTask = "waiting"
  /\ telemetry_q # <<>>
  /\ svc' = [svc EXCEPT !.tq = <<>>,
                         !.detTask = IF detRunning THEN "waiting" ELSE "done"]
  /\ Rest

\* shutdown_event is called: the tasks of bg_tasks (the dispatcher) are
\* cancelled and gathered
ShutdownBegin ==
  /\ shutPc = "idle"
  /\ svc' = [svc EXCEPT !.shutPc = "gather_tasks"]
  /\ Rest

\* gather returns; telemetry_collector.stop(): _running = False, await _task
ShutdownStopCollector ==
  /\ shutPc = "gather_tasks"
  /\ disp = "done"
  /\ svc' = [svc EXCEPT !.collRunning = FALSE, !.shutPc = "await_collector"]
  /\ Rest

\* the collector task has ended; fault_detector.stop(): _running = False,
\* await _task
ShutdownStopDetector ==
  /\ shutPc = "await_collector"
  /\ coll = "done"
  /\ svc' = [svc EXCEPT !.detRunning = FALSE, !.shutPc = "await_detector"]
  /\ Rest

\* the detector task has ended; hal.stop() (which empties _in_q) runs to
\* its end
ShutdownStopHal ==
  /\ shutPc = "await_detector"
  /\ detTask = "done"
  /\ svc' = [svc EXCEPT !.halStopped = TRUE, !.in_q = <<>>, !.shutPc = "done"]
  /\ Rest

NextStop ==
  \/ Inbound
  \/ DispatcherRead
  \/ DispatcherCancelled
  \/ CollectorRun
  \/ DetectorRun
  \/ ShutdownBegin
  \/ ShutdownStopCollector
  \/ ShutdownStopDetector
  \/ ShutdownStopHal

\* the steps of shutdown_event once it is called
ShutdownSteps ==
  \/ ShutdownStopCollector
  \/ ShutdownStopDetector
  \/ ShutdownStopHal

\* The event loop resumes every task that can go on.  Whether the simulator
\* sends another message, and whether shutdown is requested, is free.
SpecStop ==
  /\ InitStop
  /\ [][NextStop]_vars
  /\ WF_vars(DispatcherRead)
  /\ WF_vars(DispatcherCancelled)
  /\ WF_vars(CollectorRun)
  /\ WF_vars(DetectorRun)
  /\ WF_vars(ShutdownSteps)

\* C29: once shutdown is requested, shutdown_event runs to its end and
\* every background task terminates, also when no message arrives after
\* the request.
C29_ShutdownCompletes ==
  (shutPc # "idle")
    ~> (shutPc = "done" /\ disp = "done" /\ coll = "done" /\ detTask = "done")

\* ====================================================================
\* AIPathManager and the plan dicts of its callers as Python objects: a dict
\* is a reference, so the cache maps a fingerprint to the object that was
\* handed to register_success (cache[fp] = plan), and the caller keeps the
\* same object.  heap is the sequence of the plan dicts that exist, an object
\* is its index, held is the object the caller registered last.
\* ====================================================================
heap == svc.heap
held == svc.held

RefCtxs ==
  [node_id : {"tile_1"}, fault_type : AiFaultTypes, load : {0}, temp_c : {0}]

\* values the caller assigns to a key of its plan afterwards
RefSpares == {"spare_1", "spare_2"}

\* the cache as recommend reads it: self.cache[fp] is the object's content now
Deref(c, h) == [k \in DOMAIN c |-> h[c[k]]]

InitRef ==
  /\ HostQuiet
  /\ hal = "HALAdapter"
  /\ model = NoModel
  /\ PlannerInit
  /\ sim = NoSim
  /\ svc = [heap |-> <<>>, held |-> 0]

\* plan = {...}; register_success(ctx, plan)
RefRegister(ctx, plan) ==
  LET obj == Len(heap) + 1
      fp == Fingerprint(ctx)
  IN /\ Len(heap) < MaxReg
     /\ svc' = [heap |-> Append(heap, plan), held |-> obj]
     /\ cache' = RegisterSuccess(cache, ctx, obj)
     /\ planner' = [planner EXCEPT !.reg =
                       [k \in DOMAIN reg \cup {fp} |->
                          IF k = fp THEN [ctx |-> ctx, plan |-> plan]
                                    ELSE reg[k]]]
     /\ UNCHANGED <<now, hal, model, toSrv, srvExec, pending, nAtt, heal,
                    lastFb, sim>>

\* the caller, after register_success returned: plan["spare_id"] = s
CallerSetsSpare(s) ==
  /\ held # 0
  /\ svc' = [svc EXCEPT !.heap[held].spare_id = s]
  /\ UNCHANGED <<hostVars, planner, sim>>

\* the caller, after register_success returned: plan["action"] = "isolate"
CallerSetsAction ==
  /\ held # 0
  /\ svc' = [svc EXCEPT !.heap[held].action = "isolate"]
  /\ UNCHANGED <<hostVars, planner, sim>>

\* recommend(ctx): a copy of the cached object as it is at the call
RefRecommend(ctx) ==
  /\ planner' = [planner EXCEPT !.out =
                    [ctx |-> ctx,
                     plan |-> RecommendWith(pool, Deref(cache, heap), model, ctx)]]
  /\ UNCHANGED <<hostVars, sim, svc>>

NextRef ==
  \/ \E ctx \in RefCtxs, plan \in AiPlans : RefRegister(ctx, plan)
  \/ \E s \in RefSpares : CallerSetsSpare(s)
  \/ CallerSetsAction
  \/ \E ctx \in RefCtxs : RefRecommend(ctx)

SpecRef == InitRef /\ [][NextRef]_vars

\* C32: register_success keeps a copy of the plan: whatever the caller does
\* to its plan object afterwards, a recommend answered from the cache returns
\* the action and spare_id the plan had when it was registered.
C32_RegisteredPlanIsACopy ==
  \A ctx \in RefCtxs :
    Fingerprint(ctx) \in DOMAIN reg =>
      LET p == reg[Fingerprint(ctx)].plan
          r == RecommendWith(pool, Deref(cache, heap), model, ctx)
      IN /\ r.source = "cache"
         /\ r.action = p.action
         /\ r.spare_id = p.spare_id

\* ====================================================================
\* The inbound path of the host for lines of any JSON type: the adapter's
\* reader puts whatever json.loads returns on _in_q, and each message is
\* taken by the one of hal_incoming_dispatcher and TelemetryCollector._run
\* whose get() is served.  A JSON value is held as its Python type (kind),
\* its truth value and, for a dict, its msg_type.
\* ====================================================================
fed == svc.fed   \* the messages given to cmd_sender.feed_incoming, in order

JsonValue(kind, truthy, msg_type) ==
  [kind |-> kind, truthy |-> truthy, msg_type |-> msg_type]

\* {"msg_type": "heartbeat", ...}, {"msg_type": "cmd_result", ...}, {},
\* [1] and 0
JsonValues ==
  {JsonValue("dict", TRUE, "heartbeat"), JsonValue("dict", TRUE, "cmd_result"),
   JsonValue("dict", FALSE, "none"),
   JsonValue("list", TRUE, "none"), JsonValue("int", FALSE, "none")}

InitIn ==
  /\ HostQuiet
  /\ hal = "HALAdapter"
  /\ model = NoModel
  /\ PlannerInit
  /\ sim = NoSim
  /\ svc = [in_q |-> <<>>, tq |-> <<>>, sent |-> 0, disp |-> "waiting",
            fed |-> <<>>]

\* _reader_loop: json.loads(text) and _in_q.put_nowait(msg)
InboundLine(msg) ==
  /\ sent < MaxInbound
  /\ svc' = [svc EXCEPT !.sent = @ + 1, !.in_q = Append(@, msg)]
  /\ Rest

\* hal_incoming_dispatcher, one turn of its loop with a message read: a
\* false value goes to the sleep branch; msg.get of a value that is no dict
\* raises AttributeError, which the outer handler answers with return
DispatchOne ==
  /\ disp = "waiting"
  /\ in_q # <<>>
  /\ LET msg == Head(in_q) IN
       svc' = IF ~msg.truthy THEN [svc EXCEPT !.in_q = Tail(@)]
              ELSE IF msg.kind # "dict"
                THEN [svc EXCEPT !.in_q = Tail(@), !.disp = "done"]
              ELSE [svc EXCEPT !.in_q = Tail(@), !.fed = Append(@, msg),
                                !.tq = Append(@, msg)]
  /\ Rest

\* TelemetryCollector._run, one turn of its loop with a message read
CollectOne ==
  /\ in_q # <<>>
  /\ LET msg == Head(in_q) IN
       svc' = IF msg.kind = "dict"
                THEN [svc EXCEPT !.in_q = Tail(@), !.tq = Append(@, msg)]
                ELSE [svc EXCEPT !.in_q = Tail(@)]
  /\ Rest

NextIn ==
  \/ \E msg \in JsonValues : InboundLine(msg)
  \/ DispatchOne
  \/ CollectOne

SpecIn == InitIn /\ [][NextIn]_vars

\* C33: a line that parses as JSON but is no object never stops the inbound
\* dispatcher: whatever has been read, the dispatcher task is still in its
\* loop, so that later cmd_result and heartbeat messages are fed to the
\* command sender and forwarded to the detector queue.
C33_NonObjectKeepsDispatcher ==
  disp = "waiting"

\* ====================================================================
\* Board(3, 1), two tiles that carry load and one spare, under any sequence
\* of fast swaps, fault injections and clears: the spare list and the reuse
\* of a spare.
\* ====================================================================
SwapIds == TileSet(NewBoard(3, 1)) \cup {"tile_9"}

InitSpare ==
  /\ HostQuiet
  /\ hal = "HALAdapter"
  /\ model = NoModel
  /\ PlannerInit
  /\ SvcIdle
  /\ sim = [NewSim(0) EXCEPT !.board = NewBoard(3, 1)]

NextSpare ==
  \/ \E target \in SwapIds, spare \in SwapIds : FastSwap(target, spare)
  \/ \E id \in SwapIds :
       InjectFault(id, "missing_heartbeat", FALSE, [has |-> FALSE, increase |-> 0])
  \/ \E id \in SwapIds : BoardClearFault(id)

SpecSpare == InitSpare /\ [][NextSpare]_vars

\* the spare carries a module that a fast swap has put on it
Used(spare) ==
  /\ spare \in SeqRange(board.spares)
  /\ board.tiles[spare].pr_loaded # "spare_" \o spare

\* C35: no operation changes the spare list of the board; a fast swap onto a
\* spare that carries the module of an earlier swap, from a target that is
\* another tile, returns swapped and puts the module of its target on the
\* spare in place of the one it carried.
C35_SpareListConstantSpareReused ==
  [][/\ board'.spares = board.spares
     /\ \A target \in TileSet(board), spare \in SeqRange(board.spares) :
          (FastSwap(target, spare) /\ Used(spare) /\ target # spare) =>
            /\ swapRes'.status = "swapped"
            /\ board'.tiles[spare].pr_loaded =
                 IF board.tiles[target].pr_loaded # "none"
                   THEN board.tiles[target].pr_loaded
                   ELSE "module_" \o target]_vars

\* both loaded tiles were swapped onto the one spare, tile_1 last: the spare
\* carries the module of tile_1 and is still the spare list
C35_SpareUsedTwice ==
  /\ board.spares = <<"tile_2">>
  /\ board.tiles["tile_0"].status = "isolated"
  /\ board.tiles["tile_1"].status = "isolated"
  /\ board.tiles["tile_2"].pr_loaded = "module_tile_1"
  /\ swapRes.status = "swapped"

\* ====================================================================
\* HealingManager and AIPathManager for the events FaultDetector emits, with
\* their evidence dicts: _run_heal builds the context from the event, asks
\* recommend for a plan and, for a heal that is verified and acknowledged
\* with success, calls register_success with the same context and plan.
\* att is the sequence of the heals started, in the order of their recommend
\* calls.
\* ====================================================================
att == svc.att

\* d.get(k, default) of a dict held as a function on its keys
DictGet(d, k, default) == IF k \in DOMAIN d THEN d[k] ELSE default

Evt(node, fault_type, evidence) ==
  [node_id |-> node, fault_type |-> fault_type, evidence |-> evidence]

\* the events of the quick checks (evidence error_count in hundredths and
\* status_code) and of the heartbeat sweep (evidence last_seen_ms_ago)
DetEvents ==
  {Evt(n, "error_count_exceeded", [error_count |-> ec, status_code |-> 0]) :
     n \in Nodes, ec \in {300, 500}}
  \cup {Evt(n, "missing_heartbeat", [last_seen_ms_ago |-> d]) :
          n \in Nodes, d \in {250, 1200}}

\* a context whose load is taken from the evidence's error_count
CtxLoadFromErrors(evt) ==
  [node_id |-> evt.node_id, fault_type |-> evt.fault_type,
   load |-> DictGet(evt.evidence, "error_count", 0),
   temp_c |-> DictGet(evt.evidence, "temp_c", 0)]

\* ctx of _run_heal, as _fingerprint reads it: node_id, fault_type,
\* metrics.get("load", 0) and metrics.get("temp_c", 0) with metrics the
\* evidence of the event
CtxOf(evt) ==
  [node_id |-> evt.node_id, fault_type |-> evt.fault_type,
   load |-> DictGet(evt.evidence, "load", 0),
   temp_c |-> DictGet(evt.evidence, "temp_c", 0)]

InitEv ==
  /\ HostQuiet
  /\ hal = "HALAdapter"
  /\ model \in AiModels
  /\ PlannerInit
  /\ sim = NoSim
  /\ svc = [att |-> <<>>]

\* _run_heal up to its first await: ctx and plan = self.ai.recommend(ctx)
EvPlan(evt) ==
  LET ctx == CtxOf(evt)
      plan == RecommendWith(pool, cache, model, ctx)
  IN /\ Len(att) < MaxHeals
     /\ svc' = [svc EXCEPT !.att =
                  Append(@, [evt |-> evt, ctx |-> ctx, plan |-> plan,
                             committed |-> FALSE])]
     /\ planner' = [planner EXCEPT !.out = [ctx |-> ctx, plan |-> plan]]
     /\ UNCHANGED <<hostVars, sim>>

\* the commit of the i-th heal: self.ai.register_success(ctx, plan)
EvCommit(i) ==
  LET a == att[i]
      fp == Fingerprint(a.ctx)
  IN /\ ~a.committed
     /\ svc' = [svc EXCEPT !.att[i].committed = TRUE]
     /\ cache' = RegisterSuccess(cache, a.ctx, a.plan)
     /\ planner' = [planner EXCEPT !.reg =
                       [k \in DOMAIN reg \cup {fp} |->
                          IF k = fp THEN [ctx |-> a.ctx, plan |-> a.plan]
                                    ELSE reg[k]]]
     /\ UNCHANGED <<now, hal, model, toSrv, srvExec, pending, nAtt, heal,
                    lastFb, sim>>

NextEv ==
  \/ \E evt \in DetEvents : EvPlan(evt)
  \/ \E i \in 1..Len(att) : EvCommit(i)

SpecEv == InitEv /\ [][NextEv]_vars

\* a heal for the node and fault type of evt has been committed
CommittedFor(evt) ==
  \E i \in 1..Len(att) :
    /\ att[i].committed
    /\ att[i].evt.node_id = evt.node_id
    /\ att[i].evt.fault_type = evt.fault_type

\* C36: once a heal for a node and a fault type has been committed, the plan
\* for every detector event with that node and fault type comes from the
\* cache, whatever the evidence of the event is.
C36_SameNodeAndTypeHitCache ==
  \A evt \in DetEvents :
    CommittedFor(evt) =>
      RecommendWith(pool, cache, model, CtxOf(evt)).source = "cache"

\* a heal was planned from the cache for an event whose evidence differs
\* from the evidence of the committed heal with its node and fault type
C36_OtherEvidenceHitCache ==
  \E i, j \in 1..Len(att) :
    /\ att[j].committed
    /\ att[i].plan.source = "cache"
    /\ att[i].evt.node_id = att[j].evt.node_id
    /\ att[i].evt.fault_type = att[j].evt.fault_type
    /\ att[i].evt.evidence # att[j].evt.evidence

\* ====================================================================
\* Faults injected one after the other on the tiles of Board(2, 1) by
\* inject_from_message, with the clock passing a fault's expiry and
\* tick_all.  injs is the sequence of the fault_event messages injected.
\* ====================================================================
injs == sim.injs

\* fault_event messages for the tiles of the board: severity critical gives
\* duration None, major 60 s
InjLines ==
  {Line("object", "fault_event", id, ft, sev) :
     id \in TileSet(SimBoard), ft \in InjFaults, sev \in {"critical", "major"}}

InitTile ==
  /\ HostQuiet
  /\ hal = "HALAdapter"
  /\ model = NoModel
  /\ PlannerInit
  /\ SvcIdle
  /\ sim = [board |-> SimBoard, loops |-> NoLoops, injs |-> <<>>]

\* inject_from_message(board, msg) for a tile of the board
TileInject(msg) ==
  /\ Len(injs) < MaxInj + 1
  /\ sim' = [sim EXCEPT !.board = InjectFromMessage(board, msg).board,
                         !.injs = Append(@, msg)]
  /\ UNCHANGED <<hostVars, planner, svc>>

NextTile ==
  \/ \E msg \in InjLines : TileInject(msg)
  \/ \E id \in TileSet(board) : Elapse(id)
  \/ BoardTick

SpecTile == InitTile /\ [][NextTile]_vars

\* the last message injected on tile id (NoLine when there was none)
LatestFor(id) ==
  LET on == {i \in 1..Len(injs) : injs[i].node_id = id}
  IN IF on = {} THEN NoLine
     ELSE injs[CHOOSE i \in on : \A j \in on : j <= i]

\* the forced fault of every tile that has one is the fault of the last
\* injection on it, and it has an expiry exactly when that injection was
\* not critical
LatestInjectionRules ==
  \A id \in TileSet(board) :
    board.tiles[id].fault # "none" =>
      /\ board.tiles[id].fault = LatestFor(id).fault_type
      /\ board.tiles[id].until = "none" <=> LatestFor(id).severity = "critical"

\* C37: a tile holds one forced fault, the one of the latest injection, with
\* that injection's expiry.  A tick after the expiry has passed clears the
\* tile to status ok, whatever was injected before; a tick never changes
\* the fault or the status of a tile whose latest injection is unbounded.
C37_LatestInjectionDecidesExpiry ==
  [][/\ LatestInjectionRules'
     /\ BoardTick =>
          \A id \in TileSet(board) :
            /\ board.tiles[id].until = "passed" =>
                 /\ board'.tiles[id].fault = "none"
                 /\ board'.tiles[id].status = "ok"
            /\ (/\ board.tiles[id].fault # "none"
                /\ LatestFor(id).severity = "critical") =>
                 /\ board'.tiles[id].fault = board.tiles[id].fault
                 /\ board'.tiles[id].status = board.tiles[id].status]_vars

\* tile_0 got a critical fault and then a major one, and a tick after the
\* expiry has cleared it, while tile_1 was not touched
C37_TimedAfterCriticalCleared ==
  /\ Len(injs) = 2
  /\ injs[1].node_id = "tile_0" /\ injs[1].severity = "critical"
  /\ injs[2].node_id = "tile_0" /\ injs[2].severity = "major"
  /\ board.tiles["tile_0"].fault = "none"
  /\ board.tiles["tile_0"].status = "ok"

====
